---- MODULE Spec2Model ----
(***************************************************************************)
(* College application portal: the confidential submission pipeline.       *)
(*                                                                         *)
(*   Spec      backend path: applicationController.submitApplication on    *)
(*             the SQL store and the admin router (authenticateAdmin,      *)
(*             requireAdmin, adminRateLimit, then the admin handlers).     *)
(*   SpecBatch the same path with the batch decrypt route.                 *)
(*   SpecGate  the authorization gate alone, with the process clock.       *)
(*   SpecFile  the file-backed store behind POST /api/applications.        *)
(*   SpecList  the file-backed store under the clock, with its list route. *)
(*   SpecStore the SQL store under its public routes.                      *)
(*   SpecStats the SQL store under the clock, with its statistics route.   *)
(*   SpecAuth  the admin router under credentials in header and query.     *)
(*   SpecConc  the admin router with handlers in flight at once.           *)
(*   SpecListing the list-with-decryption route over several submissions.  *)
(*   SpecCodec the client codec encryptData / decryptData.                 *)
(*   SpecTamper the codec on modified ciphertexts and nonces.              *)
(***************************************************************************)
EXTENDS Integers, Sequences, FiniteSets, TLC

VARIABLES
    now,             \* Date.now() of the server process, in ms
    rateLimitStore,  \* global.rateLimitStore: caller -> request timestamps
    admitted,        \* history: caller -> timestamps of every admitted request
    isConfigured,    \* azureKeyVaultService.isConfigured
    Applications,    \* rows of the SQL table Applications
    req,             \* the request being answered
    resp,            \* the response sent for it
    storeReads,      \* azureSqlService reads made for that request
    kvCalls,         \* azureKeyVaultService.decryptData calls made for it
    cause,           \* per id of that request: what its decryption ran into
    submitted,       \* id -> the fields the producer encrypted for that row
    applicationsMap, \* FileStorage.applications: the in-memory Map, as its values
    initialized,     \* FileStorage.initialized
    file,            \* applications.json
    procs,           \* the POST /api/applications requests in flight
    generated,       \* the nonces generateIV has returned
    issued,          \* the identifiers randomUUID has returned
    created,         \* history: the records createApplication has returned
    consoleLog,      \* the console lines of the file-backed server that
                     \* interpolate a field of a submission
    handlers,        \* the admin requests past the gate whose handler awaits
    codec            \* one run of the client codec: its inputs and results

fileVars == <<applicationsMap, initialized, file, procs, generated, issued, created,
              consoleLog>>

vars == <<now, rateLimitStore, admitted, isConfigured, Applications, req, resp,
          storeReads, kvCalls, cause, submitted, fileVars, handlers, codec>>

(***************************************************************************)
(* Bounds                                                                  *)
(***************************************************************************)
MaxApps == 1
MaxFileApps == 2
MaxBatch == 2
\* admin requests admitted per behaviour of the backend path / of the gate
MaxBackendRequests == 1
MaxGateRequests == 11
MaxStatsApps == 2
MaxListApps == 2

(***************************************************************************)
(* Values                                                                  *)
(***************************************************************************)
Callers == {"10.0.0.1", "10.0.0.2"}
ValidToken == "admin-demo-token-2024"
WrongToken == "guess"
NoHeader == [scheme |-> "", cred |-> ""]
\* (Authorization header, token query parameter) of the requests made
Credentials ==
    {<<NoHeader, "">>,
     <<[scheme |-> "Bearer", cred |-> ValidToken], "">>,
     <<[scheme |-> "Bearer", cred |-> WrongToken], "">>,
     <<NoHeader, ValidToken>>,
     <<NoHeader, WrongToken>>}
BackendCallers == {"10.0.0.1"}
\* what a run of the handler meets: both services answer, the database
\* fails, or the key-custody service fails
Env == {"ok", "dbDown", "kvDown"}

\* Identifiers: the well-formed UUIDs, a malformed one, and no id at all
UuidIds == 1..(MaxApps + 1)
BadId == -1
NoId == 0
RequestIds == UuidIds \cup {BadId}

DemoKey == "demo-college-app-encryption-key-"
VaultKey == "college-app-encryption-key"

\* Fields a producer encrypts (ApplicationData) and the absent value.
NoData == [name |-> "", gpa |-> "", course |-> "", department |-> ""]
\* A name with double quotes and a line feed in it
QuoteLineName == "A\"\n\"B"

AdaData == [name |-> "Ada", gpa |-> "3.9", course |-> "CS", department |-> "Eng"]

\* Plaintext bytes: the UTF-8 of a JSON text, or bytes that are not JSON.
JsonText(d) == [json |-> TRUE, data |-> d]
NotJson == [json |-> FALSE, data |-> NoData]

\* Ciphertext bytes: an AES-GCM sealing of pt under key with nonce iv, or
\* bytes whose tag verifies under no key (corrupted).
Sealed(k, n, pt) == [sealed |-> TRUE, key |-> k, iv |-> n, pt |-> pt]
Corrupted == [sealed |-> FALSE, key |-> "", iv |-> "", pt |-> NotJson]
NoBytes == [sealed |-> FALSE, key |-> "", iv |-> "none", pt |-> NotJson]

\* Base64 transport of a byte buffer and Buffer.from(s, 'base64').
Base64Of(bytes) == [b64 |-> TRUE, bytes |-> bytes]
EmptyString == [b64 |-> FALSE, bytes |-> NoBytes]
BufferFromBase64(s) == IF s.b64 THEN s.bytes ELSE NoBytes

IVs == {"iv-A", "iv-B"}

NoView == [id |-> NoId]
\* the JavaScript value undefined
Undefined == [undefined |-> TRUE]
NoResp == [status |-> 0, error |-> "", message |-> "", application |-> NoView,
           applicationId |-> NoId, successful |-> 0, failed |-> 0, total |-> 0,
           data |-> <<>>, errors |-> <<>>, applications |-> <<>>, count |-> 0,
           csv |-> <<>>, analytics |-> [totalApplications |-> 0], statistics |-> <<>>,
           health |-> [status |-> ""]]
NoReq == [kind |-> "none", caller |-> "", header |-> NoHeader, query |-> "",
          op |-> "", id |-> NoId, ids |-> <<>>, time |-> 0, body |-> <<>>]

Reply(status, error, message) ==
    [NoResp EXCEPT !.status = status, !.error = error, !.message = message]


(***************************************************************************)
(* Validation (backend/utils/validation.js)                                *)
(***************************************************************************)
\* parseFloat on the GPA strings of the model, in hundredths.
parseFloat(s) ==
    CASE s = "3.9"  -> [nan |-> FALSE, val |-> 390]
      [] s = "4.0"  -> [nan |-> FALSE, val |-> 400]
      [] s = "0.0"  -> [nan |-> FALSE, val |-> 0]
      [] s = "4.1"  -> [nan |-> FALSE, val |-> 410]
      [] s = "-0.1" -> [nan |-> FALSE, val |-> -10]
      [] s = "3.5"  -> [nan |-> FALSE, val |-> 350]
      [] s = "3.0"  -> [nan |-> FALSE, val |-> 300]
      [] s = "2.9"  -> [nan |-> FALSE, val |-> 290]
      [] OTHER      -> [nan |-> TRUE, val |-> 0]

isValidGpa_Exclusive(gpa) ==
    LET gpaNum == parseFloat(gpa)
    IN  ~gpaNum.nan /\ gpaNum.val > 0 /\ gpaNum.val < 400

isValidGpa(gpa) ==
    LET gpaNum == parseFloat(gpa)
    IN  ~gpaNum.nan /\ gpaNum.val >= 0 /\ gpaNum.val <= 400

\* name.trim().length of the names of the model
TrimLength(s) == CASE s = "" -> 0 [] s = "A" -> 1 [] OTHER -> 3

isValidUuid(uuid) == uuid \in UuidIds

validateApplicationId(id) ==
    IF id = NoId THEN [isValid |-> FALSE, errors |-> <<"Application ID is required">>]
    ELSE IF ~isValidUuid(id)
         THEN [isValid |-> FALSE, errors |-> <<"Invalid application ID format">>]
         ELSE [isValid |-> TRUE, errors |-> <<>>]

validateApplicationData(data) ==
    LET e1 == IF ~data.encryptedData.b64 THEN <<"Encrypted data is required">> ELSE <<>>
        e2 == IF data.iv = "" THEN <<"Initialization vector (IV) is required">> ELSE <<>>
        e3 == IF data.name # "" /\ TrimLength(data.name) < 2
              THEN <<"Name must be at least 2 characters long">> ELSE <<>>
        e4 == IF data.gpa # "" /\ ~isValidGpa(data.gpa)
              THEN <<"GPA must be between 0.0 and 4.0">> ELSE <<>>
        errors == e1 \o e2 \o e3 \o e4
    IN  [isValid |-> errors = <<>>, errors |-> errors]

(***************************************************************************)
(* SQL store (AzureSqlService)                                             *)
(***************************************************************************)
StoredIds == {r.id : r \in Applications}

\* NEWID(): an identifier no row carries; identifiers are opaque, so the
\* first one not in the table stands for any
NewId(id) == id \in UuidIds \ StoredIds /\ \A other \in UuidIds \ StoredIds : id <= other

saveApplication(applicationData, id) ==
    [id |-> id,
     name |-> applicationData.name,
     email |-> applicationData.email,
     phone |-> applicationData.phone,
     course |-> applicationData.course,
     department |-> applicationData.department,
     gpa |-> applicationData.gpa,
     document_name |-> applicationData.documentName,
     encrypted_data |-> applicationData.encryptedData,
     iv |-> applicationData.iv,
     created_at |-> now]

\* SELECT ... WHERE id = @id: the rows found (none when the id is unknown)
getApplicationById(applicationId) == {r \in Applications : r.id = applicationId}

(***************************************************************************)
(* Submission (ApplicationController.submitApplication)                    *)
(***************************************************************************)
Body(ct, iv, name, gpa) ==
    [encryptedData |-> ct, iv |-> iv, name |-> name, email |-> "", phone |-> "",
     course |-> "", department |-> "", gpa |-> gpa, documentName |-> ""]

\* What handleSubmit posts: the form encrypted under the demo key with the
\* nonce it generated, and no index field.
ClientBody(data, iv) == Body(Base64Of(Sealed(DemoKey, iv, JsonText(data))), iv, "", "")

\* Bodies other producers post.
OtherBodies ==
    {Body(Base64Of(Sealed(VaultKey, "iv-A", JsonText(AdaData))), "iv-A", "Ada", "3.9"),
     Body(Base64Of(Sealed(VaultKey, "iv-B", NotJson)), "iv-B", "Ada", "4.0"),
     Body(Base64Of(Corrupted), "iv-A", "", ""),
     Body(EmptyString, "iv-A", "Ada", "3.9"),
     Body(Base64Of(Corrupted), "", "Ada", "3.9"),
     Body(Base64Of(Corrupted), "iv-B", "A", "3.9"),
     Body(Base64Of(Corrupted), "iv-B", "Ada", "4.1")}

\* Bodies at and around the bounds of the GPA
GpaBodies ==
    {Body(Base64Of(Corrupted), "iv-B", "Ada", gpa) :
        gpa \in {"0.0", "4.0", "4.1", "-0.1", "abc"}}

PreparedData(body) ==
    [name |-> body.name, email |-> body.email, phone |-> body.phone,
     course |-> body.course, department |-> body.department,
     gpa |-> IF parseFloat(body.gpa).nan THEN 0 ELSE parseFloat(body.gpa).val,
     documentName |-> body.documentName,
     encryptedData |-> BufferFromBase64(body.encryptedData),
     iv |-> body.iv]

\* The request of a submission, with the gpa of its body
SubmitReq(body) == [NoReq EXCEPT !.kind = "submit", !.body = [gpa |-> body.gpa]]

submitApplication(body, dbOk, id, data) ==
    LET validationResult == validateApplicationData(body)
    IN  /\ req' = SubmitReq(body)
        /\ storeReads' = 0
        /\ kvCalls' = 0
        /\ cause' = <<>>
        /\ UNCHANGED <<now, rateLimitStore, admitted, isConfigured, fileVars, handlers,
                       codec>>
        /\ IF ~validationResult.isValid
           THEN /\ resp' = [Reply(400, "Invalid request data", "")
                              EXCEPT !.errors = validationResult.errors]
                /\ UNCHANGED <<Applications, submitted>>
           ELSE IF ~dbOk
           THEN /\ resp' = Reply(500, "Failed to process application",
                                 "Failed to save application to database")
                /\ UNCHANGED <<Applications, submitted>>
           ELSE /\ NewId(id)
                /\ Applications' = Applications \cup {saveApplication(PreparedData(body), id)}
                /\ submitted' = submitted \cup {[id |-> id, data |-> data]}
                /\ resp' = [Reply(201, "", "Application submitted successfully")
                              EXCEPT !.applicationId = id]

\* POST /api/applications with a body of GpaBodies
GpaSubmit ==
    /\ Cardinality(Applications) < MaxApps
    /\ \E body \in GpaBodies, dbOk \in BOOLEAN, id \in UuidIds :
          submitApplication(body, dbOk, id,
                            BufferFromBase64(body.encryptedData).pt.data)

\* Bodies with the names a producer may choose
NameBodies ==
    {Body(Base64Of(Corrupted), "iv-B", name, "3.9") : name \in {"", "Ada", QuoteLineName}}

\* POST /api/applications with a body of NameBodies
NameSubmit ==
    /\ Cardinality(Applications) < MaxApps
    /\ \E body \in NameBodies, dbOk \in BOOLEAN, id \in UuidIds :
          submitApplication(body, dbOk, id,
                            BufferFromBase64(body.encryptedData).pt.data)

\* ApplicationForm.handleSubmit followed by POST /api/applications
ClientSubmit ==
    /\ Cardinality(Applications) < MaxApps
    /\ \E iv \in IVs, dbOk \in BOOLEAN, id \in UuidIds :
          submitApplication(ClientBody(AdaData, iv), dbOk, id, AdaData)

\* POST /api/applications from any other producer
DirectSubmit ==
    /\ Cardinality(Applications) < MaxApps
    /\ \E body \in OtherBodies, dbOk \in BOOLEAN, id \in UuidIds :
          submitApplication(body, dbOk, id,
                            BufferFromBase64(body.encryptedData).pt.data)


(***************************************************************************)
(* Key provider (AzureKeyVaultService.decryptData)                         *)
(***************************************************************************)
\* kvUp: the key-custody service answers this call.  The call passes the
\* ciphertext only; the vault verifies it under its own key.
decryptData(ciphertext, kvUp) ==
    IF ~isConfigured
    THEN [ok |-> FALSE, result |-> NotJson, why |-> "not_configured",
          message |-> "Failed to decrypt data with Azure Key Vault"]
    ELSE IF ~kvUp
    THEN [ok |-> FALSE, result |-> NotJson, why |-> "service",
          message |-> "Failed to decrypt data with Azure Key Vault"]
    ELSE IF ~(ciphertext.sealed /\ ciphertext.key = VaultKey)
    THEN [ok |-> FALSE, result |-> NotJson, why |-> "auth",
          message |-> "Failed to decrypt data with Azure Key Vault"]
    ELSE [ok |-> TRUE, result |-> ciphertext.pt, why |-> "none", message |-> ""]

\* JSON.parse of the decrypted text
JSONparse(text) == [ok |-> text.json, value |-> text.data]

(***************************************************************************)
(* Authorization gate (backend/utils/auth.js)                              *)
(***************************************************************************)
WINDOW_MS == 60000
MAX_REQUESTS == 10

validateAdminToken(token) ==
    IF token = "" THEN FALSE ELSE token = ValidToken

\* authenticateAdmin without the check for a missing token
authenticateAdmin_NoTokenPasses(authHeader, tokenFromQuery) ==
    LET token == IF authHeader.scheme = "Bearer" THEN authHeader.cred
                 ELSE IF tokenFromQuery # "" THEN tokenFromQuery
                 ELSE ""
    IN  IF token # "" /\ ~validateAdminToken(token) THEN 403 ELSE 0

\* The status authenticateAdmin answers with, 0 when it calls next().
authenticateAdmin(authHeader, tokenFromQuery) ==
    LET token == IF authHeader.scheme = "Bearer" THEN authHeader.cred
                 ELSE IF tokenFromQuery # "" THEN tokenFromQuery
                 ELSE ""
    IN  IF token = "" THEN 401
        ELSE IF ~validateAdminToken(token) THEN 403
        ELSE 0

requireAdmin(isAdmin) == IF ~isAdmin THEN 403 ELSE 0

\* the filter keeping a timestamp that is exactly one window old
recentRequests_Inclusive(requests) ==
    SelectSeq(requests, LAMBDA time : now - time <= WINDOW_MS)

\* requests.filter(time => now - time < 60000)
recentRequests(requests) == SelectSeq(requests, LAMBDA time : now - time < WINDOW_MS)

\* adminRateLimit storing the unfiltered list
adminRateLimit_Unpruned(clientIp) ==
    LET requests == rateLimitStore[clientIp]
        recent == recentRequests(requests)
    IN  IF Len(recent) >= MAX_REQUESTS
        THEN [status |-> 429, stored |-> requests]
        ELSE [status |-> 0, stored |-> Append(requests, now)]

\* adminRateLimit pushing the timestamp of a rejected request as well
adminRateLimit_RecordsRejected(clientIp) ==
    LET requests == rateLimitStore[clientIp]
        recent == recentRequests(requests)
    IN  IF Len(recent) >= MAX_REQUESTS
        THEN [status |-> 429, stored |-> Append(recent, now)]
        ELSE [status |-> 0, stored |-> Append(recent, now)]

\* The admin requests the process can hold at once
Handlers == {"h1", "h2"}
NoHandler == [pc |-> "idle", caller |-> "", time |-> 0, requests |-> <<>>]

\* adminRateLimit on the list a handler still in flight for the caller read
adminRateLimit_Stale(clientIp) ==
    LET inFlight == {p \in Handlers : handlers[p].pc = "awaiting"
                                        /\ handlers[p].caller = clientIp}
        requests == IF inFlight = {} THEN rateLimitStore[clientIp]
                    ELSE handlers[CHOOSE p \in inFlight : TRUE].requests
        recent == recentRequests(requests)
    IN  IF Len(recent) >= MAX_REQUESTS
        THEN [status |-> 429, stored |-> requests]
        ELSE [status |-> 0, stored |-> Append(recent, now)]

\* The status adminRateLimit answers with (0: next()) and the list it leaves
\* under the caller's key.
adminRateLimit(clientIp) ==
    LET requests == rateLimitStore[clientIp]
        recent == recentRequests(requests)
    IN  IF Len(recent) >= MAX_REQUESTS
        THEN [status |-> 429, stored |-> requests]
        ELSE [status |-> 0, stored |-> Append(recent, now)]

\* router.use(authenticateAdmin); router.use(requireAdmin); router.use(adminRateLimit)
Gate(clientIp, authHeader, tokenFromQuery) ==
    LET a == authenticateAdmin(authHeader, tokenFromQuery)
        r == requireAdmin(a = 0)
        l == adminRateLimit(clientIp)
    IN  IF a # 0 THEN [status |-> a, stored |-> rateLimitStore[clientIp]]
        ELSE IF r # 0 THEN [status |-> r, stored |-> rateLimitStore[clientIp]]
        ELSE l

GateReply(status) ==
    CASE status = 401 -> Reply(401, "Authentication required",
                               "Please provide a valid admin token")
      [] status = 403 -> Reply(403, "Invalid token", "The provided token is not valid")
      [] OTHER        -> Reply(429, "Rate limit exceeded",
                               "Too many admin requests. Please try again later.")

RECURSIVE TotalOver(_)
TotalOver(cs) ==
    IF cs = {} THEN 0
    ELSE LET c == CHOOSE x \in cs : TRUE IN Len(admitted[c]) + TotalOver(cs \ {c})
TotalAdmitted == TotalOver(Callers)

AdminReq(c, h, q, op) ==
    [NoReq EXCEPT !.kind = "admin", !.caller = c, !.header = h, !.query = q,
                  !.op = op, !.time = now]

\* The part of an admin request every route shares: the gate's effect on the
\* rate-limit state, and the answer when the gate stops the request.
GateStep(c, h, q, g, cap) ==
    /\ g.status = 0 => TotalAdmitted < cap
    /\ rateLimitStore' = [rateLimitStore EXCEPT ![c] = g.stored]
    /\ admitted' = IF g.status = 0 THEN [admitted EXCEPT ![c] = Append(@, now)]
                   ELSE admitted
    /\ UNCHANGED <<now, isConfigured, Applications, submitted, fileVars, handlers, codec>>

Stopped(c, h, q, op, g) ==
    /\ req' = AdminReq(c, h, q, op)
    /\ resp' = GateReply(g.status)
    /\ storeReads' = 0
    /\ kvCalls' = 0
    /\ cause' = <<>>


(***************************************************************************)
(* Decryption orchestrator (AdminController)                               *)
(***************************************************************************)
\* What res.status(..).json(..) returns to the handler: the Express response
\* object, or undefined for the stand-in object of the batch route.
JsonReturn(res) == IF res = "express" THEN [undefined |-> FALSE] ELSE Undefined

\* the view built by spreading the whole row
DecryptedView_WholeRow(application, decryptedApplicationData) ==
    [f \in DOMAIN application \cup {"decryptedData"} |->
        IF f = "decryptedData" THEN decryptedApplicationData ELSE application[f]]

DecryptedView(application, decryptedApplicationData) ==
    [id |-> application.id,
     name |-> application.name,
     email |-> application.email,
     phone |-> application.phone,
     course |-> application.course,
     department |-> application.department,
     gpa |-> application.gpa,
     documentName |-> application.document_name,
     createdAt |-> application.created_at,
     decryptedData |-> decryptedApplicationData]

\* One run of decryptApplication on id: the response it sends through res,
\* the value its promise settles with, the reads and vault calls it makes,
\* and what the decryption ran into.
decryptApplication(id, res, dbOk, kvUp) ==
    LET found == getApplicationById(id)
        application == CHOOSE r \in found : TRUE
        decryptedData == decryptData(application.encrypted_data, kvUp)
        parsed == JSONparse(decryptedData.result)
        Out(sent, returned, kv, why) ==
            [sent |-> sent, settled |-> "fulfilled", returned |-> returned,
             reads |-> 1, kv |-> kv, cause |-> why]
    IN  IF ~dbOk
        THEN Out(Reply(500, "Failed to decrypt application",
                       "Failed to retrieve application from database"),
                 Undefined, 0, "db")
        ELSE IF found = {}
        THEN Out([Reply(404, "Application not found", "") EXCEPT !.applicationId = id],
                 JsonReturn(res), 0, "notfound")
        ELSE IF application.encrypted_data = NoBytes
        THEN Out(Reply(400, "No encrypted data found for this application", ""),
                 JsonReturn(res), 0, "nodata")
        ELSE IF ~decryptedData.ok
        THEN Out(Reply(500, "Failed to decrypt application", decryptedData.message),
                 Undefined, 1, decryptedData.why)
        ELSE IF ~parsed.ok
        THEN Out(Reply(500, "Failed to parse decrypted application data", ""),
                 JsonReturn(res), 1, "parse")
        ELSE Out([Reply(200, "", "") EXCEPT
                    !.application = DecryptedView(application, parsed.value)],
                 Undefined, 1, "ok")

\* GET /api/admin/decrypt/:id
AdminDecrypt ==
    \E c \in BackendCallers, cred \in Credentials :
      LET h == cred[1]
          q == cred[2]
          g == Gate(c, h, q)
      IN  /\ GateStep(c, h, q, g, MaxBackendRequests)
          /\ IF g.status # 0
             THEN Stopped(c, h, q, "decrypt", g)
             ELSE \E id \in RequestIds, env \in Env :
                    LET idValidation == validateApplicationId(id)
                        o == decryptApplication(id, "express", env # "dbDown",
                                                env # "kvDown")
                    IN  /\ req' = [AdminReq(c, h, q, "decrypt") EXCEPT !.id = id]
                        /\ IF ~idValidation.isValid
                           THEN /\ resp' = Reply(400, "Invalid application ID", "")
                                /\ storeReads' = 0
                                /\ kvCalls' = 0
                                /\ cause' = <<>>
                           ELSE /\ resp' = o.sent
                                /\ storeReads' = o.reads
                                /\ kvCalls' = o.kv
                                /\ cause' = <<o.cause>>

(***************************************************************************)
(* Batch decrypt (POST /api/admin/decrypt-batch)                           *)
(***************************************************************************)
RECURSIVE SumSeq(_)
SumSeq(f) ==
    IF Len(f) = 0 THEN 0
    ELSE IF Len(f) = 1 THEN f[1]
    ELSE LET h == Len(f) \div 2
         IN  SumSeq(SubSeq(f, 1, h)) + SumSeq(SubSeq(f, h + 1, Len(f)))

\* req.body.applicationIds: up to MaxBatch well-formed ids, or a list with an
\* id that is not a UUID
BatchInputs == UNION {[1..n -> UuidIds] : n \in 0..MaxBatch} \cup {<<BadId>>}

\* (Authorization header, token query parameter) of the batch requests
BatchCredentials ==
    {<<NoHeader, "">>,
     <<[scheme |-> "Bearer", cred |-> ValidToken], "">>,
     <<NoHeader, WrongToken>>}

RangeOf(seq) == {seq[i] : i \in DOMAIN seq}

\* Promise.allSettled over the per-id runs
allSettled(runs) ==
    [i \in DOMAIN runs |->
        IF runs[i].settled = "fulfilled"
        THEN [status |-> "fulfilled", value |-> runs[i].returned, reason |-> ""]
        ELSE [status |-> "rejected", value |-> Undefined, reason |-> runs[i].sent.message]]

Values(results) == [i \in DOMAIN results |-> results[i].value]
Reasons(results) == [i \in DOMAIN results |-> results[i].reason]

\* the success filter that also drops the runs that returned nothing
batchSuccessful_DefinedOnly(results) ==
    Values(SelectSeq(results, LAMBDA result :
                        result.status = "fulfilled" /\ result.value # Undefined))

batchSuccessful(results) ==
    Values(SelectSeq(results, LAMBDA result : result.status = "fulfilled"))

batchFailed(results) ==
    Reasons(SelectSeq(results, LAMBDA result : result.status = "rejected"))

AdminBatch ==
    \E c \in BackendCallers, cred \in BatchCredentials :
      LET h == cred[1]
          q == cred[2]
          g == Gate(c, h, q)
      IN  /\ GateStep(c, h, q, g, MaxBackendRequests)
          /\ IF g.status # 0
             THEN Stopped(c, h, q, "batch", g)
             ELSE \E applicationIds \in BatchInputs, env \in Env :
                    LET invalidIds == SelectSeq(applicationIds,
                                        LAMBDA id : ~validateApplicationId(id).isValid)
                        runs == [i \in DOMAIN applicationIds |->
                                   decryptApplication(applicationIds[i], "fake",
                                                      env # "dbDown", env # "kvDown")]
                        results == allSettled(runs)
                        successful == batchSuccessful(results)
                        failed == batchFailed(results)
                    IN  /\ req' = [AdminReq(c, h, q, "batch") EXCEPT !.ids = applicationIds]
                        /\ IF Len(applicationIds) = 0 \/ Len(invalidIds) > 0
                           THEN /\ resp' = Reply(400, "Invalid application IDs", "")
                                /\ storeReads' = 0
                                /\ kvCalls' = 0
                                /\ cause' = <<>>
                           ELSE /\ resp' = [Reply(200, "", "") EXCEPT
                                              !.successful = Len(successful),
                                              !.failed = Len(failed),
                                              !.total = Len(applicationIds),
                                              !.data = successful,
                                              !.errors = failed]
                                /\ storeReads' = SumSeq([i \in DOMAIN runs |-> runs[i].reads])
                                /\ kvCalls' = SumSeq([i \in DOMAIN runs |-> runs[i].kv])
                                /\ cause' = [i \in DOMAIN runs |-> runs[i].cause]


(***************************************************************************)
(* Listing, analytics, export, health (AdminController)                    *)
(***************************************************************************)
\* SELECT ... ORDER BY created_at DESC: every order of the rows the clause
\* allows (rows of equal created_at come in any order).
getAllApplications ==
    {rows \in [1..Cardinality(Applications) -> Applications] :
        /\ \A i, j \in DOMAIN rows : i # j => rows[i] # rows[j]
        /\ \A i, j \in DOMAIN rows : i < j => rows[i].created_at >= rows[j].created_at}

baseApplication(app) ==
    [id |-> app.id,
     name |-> app.name,
     email |-> app.email,
     phone |-> app.phone,
     course |-> app.course,
     department |-> app.department,
     gpa |-> app.gpa,
     documentName |-> app.document_name,
     createdAt |-> app.created_at,
     hasEncryptedData |-> app.encrypted_data # NoBytes]

\* One entry of processedApplications with a catch block that sets nothing
processedApplication_NoError(app, kvUp) ==
    LET base == baseApplication(app)
        decryptedData == decryptData(app.encrypted_data, kvUp)
        parsed == JSONparse(decryptedData.result)
    IN  IF app.encrypted_data = NoBytes THEN base
        ELSE IF decryptedData.ok /\ parsed.ok
        THEN [f \in DOMAIN base \cup {"decryptedData"} |->
                 IF f = "decryptedData" THEN parsed.value ELSE base[f]]
        ELSE base

\* One entry of processedApplications
processedApplication(app, kvUp) ==
    LET base == baseApplication(app)
        decryptedData == decryptData(app.encrypted_data, kvUp)
        parsed == JSONparse(decryptedData.result)
    IN  IF app.encrypted_data = NoBytes THEN base
        ELSE IF decryptedData.ok /\ parsed.ok
        THEN [f \in DOMAIN base \cup {"decryptedData"} |->
                 IF f = "decryptedData" THEN parsed.value ELSE base[f]]
        ELSE [f \in DOMAIN base \cup {"decryptionError"} |->
                 IF f = "decryptionError" THEN "Failed to decrypt data" ELSE base[f]]

\* GET /api/admin/applications
AdminList ==
    \E c \in BackendCallers, cred \in Credentials :
      LET h == cred[1]
          q == cred[2]
          g == Gate(c, h, q)
      IN  /\ GateStep(c, h, q, g, MaxBackendRequests)
          /\ IF g.status # 0
             THEN Stopped(c, h, q, "list", g)
             ELSE \E dbOk \in BOOLEAN, applications \in getAllApplications,
                     kvDown \in SUBSET StoredIds :
                    /\ req' = AdminReq(c, h, q, "list")
                    /\ storeReads' = 1
                    /\ IF ~dbOk
                       THEN /\ resp' = Reply(500, "Failed to fetch applications",
                                             "Failed to retrieve applications from database")
                            /\ kvCalls' = 0
                            /\ cause' = <<>>
                       ELSE /\ resp' = [Reply(200, "", "") EXCEPT
                                   !.applications =
                                       [i \in DOMAIN applications |->
                                          processedApplication(applications[i],
                                              applications[i].id \notin kvDown)],
                                   !.count = Len(applications)]
                            /\ kvCalls' = Cardinality({i \in DOMAIN applications :
                                              applications[i].encrypted_data # NoBytes})
                            /\ cause' = <<>>

CountWhere(rows, P(_)) == Cardinality({i \in DOMAIN rows : P(rows[i])})

\* the part of the analytics object computed from the index fields
analyticsOf(applications) ==
    [totalApplications |-> Len(applications),
     excellent |-> CountWhere(applications, LAMBDA app : app.gpa >= 370),
     good |-> CountWhere(applications, LAMBDA app : app.gpa < 370 /\ app.gpa >= 330),
     average |-> CountWhere(applications, LAMBDA app : app.gpa < 330 /\ app.gpa >= 270),
     belowAverage |-> CountWhere(applications, LAMBDA app : app.gpa < 270),
     highQualityApplications |-> CountWhere(applications, LAMBDA app : app.gpa >= 350),
     averageQualityApplications |->
         CountWhere(applications, LAMBDA app : app.gpa < 350 /\ app.gpa >= 300),
     lowQualityApplications |-> CountWhere(applications, LAMBDA app : app.gpa < 300)]

\* GET /api/admin/analytics
AdminAnalytics ==
    \E c \in BackendCallers, cred \in Credentials :
      LET h == cred[1]
          q == cred[2]
          g == Gate(c, h, q)
      IN  /\ GateStep(c, h, q, g, MaxBackendRequests)
          /\ kvCalls' = 0
          /\ cause' = <<>>
          /\ IF g.status # 0
             THEN Stopped(c, h, q, "analytics", g)
             ELSE \E dbOk \in BOOLEAN, applications \in getAllApplications :
                    /\ req' = AdminReq(c, h, q, "analytics")
                    /\ storeReads' = 1
                    /\ resp' = IF ~dbOk
                               THEN Reply(500, "Failed to generate analytics",
                                          "Failed to retrieve applications from database")
                               ELSE [Reply(200, "", "") EXCEPT
                                       !.analytics = analyticsOf(applications)]

\* Text is a sequence of pieces: a double quote, a comma, a line feed, or a
\* run of characters holding none of the three.

\* The pieces of the strings of the model
Pieces(s) ==
    CASE s = "" -> <<>>
      [] s = QuoteLineName -> <<"A", "\"", "\n", "\"", "B">>
      [] OTHER -> <<s>>

\* "${value}" of the template literal
Quoted(s) == <<"\"">> \o Pieces(s) \o <<"\"">>

csvHeader ==
    <<"ID", ",", "Name", ",", "Email", ",", "Phone", ",", "Course", ",", "Department",
      ",", "GPA", ",", "Document Name", ",", "Created At", "\n">>

\* One element of csvRows
csvRow(app) ==
    <<ToString(app.id), ",">> \o Quoted(app.name) \o <<",">> \o Quoted(app.email)
        \o <<",">> \o Quoted(app.phone) \o <<",">> \o Quoted(app.course)
        \o <<",">> \o Quoted(app.department) \o <<",", ToString(app.gpa), ",">>
        \o Quoted(app.document_name) \o <<",">> \o Quoted(ToString(app.created_at))

RECURSIVE joinLines(_)
\* csvRows.join('\n')
joinLines(rows) ==
    IF rows = <<>> THEN <<>>
    ELSE IF Len(rows) = 1 THEN rows[1]
    ELSE rows[1] \o <<"\n">> \o joinLines(Tail(rows))

\* csvContent
csvContent(applications) ==
    csvHeader \o joinLines([i \in DOMAIN applications |-> csvRow(applications[i])])

\* GET /api/admin/export
AdminExportBy(callers, credentials, cap) ==
    \E c \in callers, cred \in credentials :
      LET h == cred[1]
          q == cred[2]
          g == Gate(c, h, q)
      IN  /\ GateStep(c, h, q, g, cap)
          /\ kvCalls' = 0
          /\ cause' = <<>>
          /\ IF g.status # 0
             THEN Stopped(c, h, q, "export", g)
             ELSE \E dbOk \in BOOLEAN, applications \in getAllApplications :
                    /\ req' = AdminReq(c, h, q, "export")
                    /\ storeReads' = 1
                    /\ resp' = IF ~dbOk
                               THEN Reply(500, "Failed to export applications",
                                          "Failed to retrieve applications from database")
                               ELSE [Reply(200, "", "") EXCEPT
                                       !.csv = csvContent(applications)]

AdminExport == AdminExportBy(BackendCallers, Credentials, MaxBackendRequests)

\* GET /api/admin/export from its arrival to the await of getAllApplications:
\* the three middlewares run in one turn of the event loop
ExportEnter ==
    \E p \in Handlers, c \in BackendCallers :
      LET h == [scheme |-> "Bearer", cred |-> ValidToken]
          g == Gate(c, h, "")
      IN  /\ handlers[p].pc = "idle"
          /\ g.status = 0 => TotalAdmitted < MaxGateRequests
          /\ rateLimitStore' = [rateLimitStore EXCEPT ![c] = g.stored]
          /\ UNCHANGED <<now, isConfigured, Applications, submitted, fileVars, codec,
                         storeReads, kvCalls, cause>>
          /\ IF g.status # 0
             THEN /\ req' = AdminReq(c, h, "", "export")
                  /\ resp' = GateReply(g.status)
                  /\ UNCHANGED <<admitted, handlers>>
             ELSE /\ admitted' = [admitted EXCEPT ![c] = Append(@, now)]
                  /\ handlers' = [handlers EXCEPT ![p] =
                                     [pc |-> "awaiting", caller |-> c, time |-> now,
                                      requests |-> rateLimitStore[c]]]
                  /\ UNCHANGED <<req, resp>>

\* The same handler after getAllApplications has settled
ExportFinish ==
    \E p \in Handlers, dbOk \in BOOLEAN, applications \in getAllApplications :
       /\ handlers[p].pc = "awaiting"
       /\ handlers' = [handlers EXCEPT ![p] = NoHandler]
       /\ req' = [AdminReq(handlers[p].caller, [scheme |-> "Bearer", cred |-> ValidToken],
                           "", "export") EXCEPT !.time = handlers[p].time]
       /\ resp' = IF ~dbOk
                  THEN Reply(500, "Failed to export applications",
                             "Failed to retrieve applications from database")
                  ELSE [Reply(200, "", "") EXCEPT !.csv = csvContent(applications)]
       /\ storeReads' = 1
       /\ UNCHANGED <<now, rateLimitStore, admitted, isConfigured, Applications,
                      submitted, fileVars, codec, kvCalls, cause>>

\* GET /api/admin/health
AdminHealth ==
    \E c \in BackendCallers, cred \in Credentials :
      LET h == cred[1]
          q == cred[2]
          g == Gate(c, h, q)
      IN  /\ GateStep(c, h, q, g, MaxBackendRequests)
          /\ kvCalls' = 0
          /\ cause' = <<>>
          /\ IF g.status # 0
             THEN Stopped(c, h, q, "health", g)
             ELSE \E azureSql \in BOOLEAN, kvUp \in BOOLEAN, genai \in BOOLEAN :
                    LET azureKeyVault == isConfigured /\ kvUp
                    IN  /\ req' = AdminReq(c, h, q, "health")
                        /\ storeReads' = IF azureSql THEN 2 ELSE 1
                        /\ resp' = [Reply(200, "", "") EXCEPT
                                     !.count = IF azureSql THEN Cardinality(Applications)
                                               ELSE 0,
                                     !.health = [status |->
                                        IF azureSql /\ azureKeyVault /\ genai
                                        THEN "healthy" ELSE "degraded"]]

(***************************************************************************)
(* File-backed store (server/storage.ts) behind POST /api/applications     *)
(***************************************************************************)
Procs == {"r1", "r2"}

NoFile == [exists |-> FALSE, intact |-> TRUE, records |-> {}]
NoInsert == [encryptedData |-> EmptyString, iv |-> ""]
NoApplication == [id |-> NoId, encryptedData |-> EmptyString, iv |-> "", submittedAt |-> 0]
Idle == [pc |-> "idle", insertApp |-> NoInsert, application |-> NoApplication, data |-> {},
         op |-> "", id |-> NoId]

\* Bodies a caller of the route posts on its own
FileBodies ==
    {[encryptedData |-> Base64Of(Sealed(DemoKey, iv, JsonText(AdaData))), iv |-> iv] :
        iv \in IVs}
    \cup {[encryptedData |-> Base64Of(Corrupted), iv |-> "iv-A"],
          [encryptedData |-> EmptyString, iv |-> "iv-A"],
          [encryptedData |-> Base64Of(Corrupted), iv |-> ""]}

\* generateIV(): a nonce the random source has not returned before
generateIV(iv) == iv \in IVs \ generated

\* randomUUID()
FileIds == 1..MaxFileApps
randomUUID(id) == id \in FileIds \ issued

\* saveToFile up to its await: the serialization of the current map
Serialized(map) == map

\* fs.writeFile settles for p: its data, or a file mixed from two
\* serializations when a write of other data to the same path is in flight
Written(p, data) ==
    {[exists |-> TRUE, intact |-> TRUE, records |-> data]}
    \cup IF \E q \in Procs \ {p} :
               /\ procs[q].pc \in {"saving", "initSaving", "getInitSaving"}
               /\ procs[q].data # data
         THEN {[exists |-> TRUE, intact |-> FALSE, records |-> {}]}
         ELSE {}

FileReq == [NoReq EXCEPT !.kind = "filepost"]

FileUnchanged ==
    UNCHANGED <<rateLimitStore, admitted, isConfigured, Applications,
                storeReads, kvCalls, cause, submitted, now, codec, handlers>>

\* String.prototype.length of a transported text: every base64 text of the
\* model carries a buffer of the same shape
Length(s) == IF s.b64 THEN 4 * Cardinality(DOMAIN s.bytes) ELSE 0

\* One console call: its text and the value interpolated into it
LogLine(text, arg) == [text |-> text, arg |-> arg]

\* The console.log calls of the route between validation and createApplication
routeLog(applicationData) ==
    {LogLine("Encrypted data length:", ToString(Length(applicationData.encryptedData))),
     LogLine("IV length:", ToString(Len(applicationData.iv)))}

\* The console.log calls of createApplication after its saveToFile
createApplicationLog(insertApp) ==
    {LogLine("- Encrypted data length: bytes", ToString(Length(insertApp.encryptedData))),
     LogLine("- IV: ", insertApp.iv)}

\* createApplication from `const id = randomUUID()` to the await of
\* saveToFile, on the map as initialize() left it
Store(p, map, insertApp, id) ==
    LET application == [id |-> id,
                        encryptedData |-> insertApp.encryptedData,
                        iv |-> insertApp.iv,
                        submittedAt |-> now]
        stored == {a \in map : a.id # id} \cup {application}
    IN  /\ randomUUID(id)
        /\ issued' = issued \cup {id}
        /\ applicationsMap' = stored
        /\ procs' = [procs EXCEPT ![p] = [Idle EXCEPT !.pc = "saving",
                                                       !.insertApp = insertApp,
                                                       !.application = application,
                                                       !.data = Serialized(stored)]]

\* The route up to the first await of createApplication
Post(p, body) ==
    /\ procs[p].pc = "idle"
    /\ FileUnchanged
    /\ UNCHANGED created
    /\ IF ~body.encryptedData.b64 \/ body.iv = ""
       THEN /\ req' = FileReq
            /\ resp' = Reply(400, "Missing encrypted data or IV", "")
            /\ UNCHANGED <<applicationsMap, initialized, file, procs, issued, consoleLog>>
       ELSE /\ UNCHANGED <<req, resp, file, initialized>>
            /\ consoleLog' = consoleLog \cup routeLog(body)
            /\ IF initialized
               THEN \E id \in FileIds : Store(p, applicationsMap, body, id)
               ELSE /\ procs' = [procs EXCEPT ![p] =
                                   [Idle EXCEPT !.pc = "loading", !.insertApp = body]]
                    /\ UNCHANGED <<applicationsMap, issued>>

\* ApplicationForm.handleSubmit: a generated nonce, the form sealed with it
ClientPost ==
    \E p \in Procs, iv \in IVs :
        /\ generateIV(iv)
        /\ generated' = generated \cup {iv}
        /\ Post(p, [encryptedData |-> Base64Of(Sealed(DemoKey, iv, JsonText(AdaData))),
                    iv |-> iv])

\* POST /api/applications with a body of the caller's choice
DirectPost ==
    \E p \in Procs, body \in FileBodies :
        /\ UNCHANGED generated
        /\ Post(p, body)

\* initialize(): fs.access and fs.readFile have settled
Loaded ==
    \E p \in Procs :
        /\ procs[p].pc = "loading"
        /\ FileUnchanged
        /\ UNCHANGED <<created, consoleLog>>
        /\ UNCHANGED <<req, resp, file, generated>>
        /\ IF ~file.exists
           THEN /\ procs' = [procs EXCEPT ![p].pc = "initSaving",
                                          ![p].data = Serialized(applicationsMap)]
                /\ UNCHANGED <<applicationsMap, initialized, issued>>
           ELSE LET loaded == IF file.intact THEN file.records ELSE {}
                    map == {a \in applicationsMap : a.id \notin {l.id : l \in loaded}}
                               \cup loaded
                IN  /\ initialized' = TRUE
                    /\ \E id \in FileIds : Store(p, map, procs[p].insertApp, id)

\* initialize(): the saveToFile of the ENOENT branch has settled
InitSaved ==
    \E p \in Procs, ok \in BOOLEAN :
        /\ procs[p].pc = "initSaving"
        /\ FileUnchanged
        /\ UNCHANGED <<created, consoleLog>>
        /\ UNCHANGED generated
        /\ IF ok
           THEN /\ \E f \in Written(p, procs[p].data) : file' = f
                /\ initialized' = TRUE
                /\ UNCHANGED <<req, resp>>
                /\ \E id \in FileIds : Store(p, applicationsMap, procs[p].insertApp, id)
           ELSE /\ req' = FileReq
                /\ resp' = Reply(500, "Failed to process application", "EACCES")
                /\ procs' = [procs EXCEPT ![p] = Idle]
                /\ UNCHANGED <<applicationsMap, initialized, file, issued>>

\* createApplication: its saveToFile has settled
Saved ==
    \E p \in Procs, ok \in BOOLEAN :
        /\ procs[p].pc = "saving"
        /\ FileUnchanged
        /\ UNCHANGED <<applicationsMap, initialized, generated, issued>>
        /\ req' = FileReq
        /\ procs' = [procs EXCEPT ![p] = Idle]
        /\ IF ok
           THEN /\ \E f \in Written(p, procs[p].data) : file' = f
                /\ created' = created \cup {procs[p].application}
                /\ consoleLog' = consoleLog \cup createApplicationLog(procs[p].insertApp)
                /\ resp' = [Reply(201, "", "Application submitted successfully")
                              EXCEPT !.applicationId = procs[p].application.id]
           ELSE /\ resp' = Reply(500, "Failed to process application", "EACCES")
                /\ UNCHANGED <<file, created, consoleLog>>

\* Array.from(this.applications.values()): the records of the map, in the
\* order the map holds them
MapValues(map) ==
    {values \in [1..Cardinality(map) -> map] :
        \A i, j \in DOMAIN values : i # j => values[i] # values[j]}

\* The comparators of the sort
bySubmittedAt_Ascending(a, b) == a.submittedAt - b.submittedAt

bySubmittedAt(a, b) == b.submittedAt - a.submittedAt

\* Array.prototype.sort under bySubmittedAt: stable, x goes behind every
\* element that does not compare greater than it
Inserted(sorted, x) ==
    LET before == {i \in DOMAIN sorted :
                      \A j \in 1..i : bySubmittedAt(sorted[j], x) <= 0}
        n == Cardinality(before)
    IN  SubSeq(sorted, 1, n) \o <<x>> \o SubSeq(sorted, n + 1, Len(sorted))

RECURSIVE sort(_)
sort(values) ==
    IF values = <<>> THEN <<>>
    ELSE Inserted(sort(SubSeq(values, 1, Len(values) - 1)), values[Len(values)])

\* The GET routes after `await this.initialize()`, on the map it left
Answer(op, id, map) ==
    /\ req' = [NoReq EXCEPT !.kind = "fileget", !.op = op, !.id = id]
    /\ IF op = "list"
       THEN \E values \in MapValues(map) :
               resp' = [Reply(200, "", "") EXCEPT !.applications = sort(values),
                                                  !.count = Len(values)]
       ELSE IF \E a \in map : a.id = id
            THEN resp' = [Reply(200, "", "")
                            EXCEPT !.application = CHOOSE a \in map : a.id = id]
            ELSE resp' = Reply(404, "Application not found", "")

\* A GET route up to the first await of initialize()
Get(p, op, id) ==
    /\ procs[p].pc = "idle"
    /\ FileUnchanged
    /\ UNCHANGED <<created, consoleLog>>
    /\ UNCHANGED <<applicationsMap, initialized, file, issued>>
    /\ IF initialized
       THEN /\ Answer(op, id, applicationsMap)
            /\ UNCHANGED procs
       ELSE /\ procs' = [procs EXCEPT ![p] =
                           [Idle EXCEPT !.pc = "getLoading", !.op = op, !.id = id]]
            /\ UNCHANGED <<req, resp>>

\* GET /api/applications
GetAll ==
    \E p \in Procs :
        /\ UNCHANGED generated
        /\ Get(p, "list", NoId)

\* GET /api/applications/:id
GetOne ==
    \E p \in Procs, id \in FileIds :
        /\ UNCHANGED generated
        /\ Get(p, "get", id)

\* initialize() of a GET: fs.access and fs.readFile have settled
GetLoaded ==
    \E p \in Procs :
        /\ procs[p].pc = "getLoading"
        /\ FileUnchanged
        /\ UNCHANGED <<created, consoleLog>>
        /\ UNCHANGED <<file, generated, issued>>
        /\ IF ~file.exists
           THEN /\ procs' = [procs EXCEPT ![p].pc = "getInitSaving",
                                          ![p].data = Serialized(applicationsMap)]
                /\ UNCHANGED <<applicationsMap, initialized, req, resp>>
           ELSE LET loaded == IF file.intact THEN file.records ELSE {}
                    map == {a \in applicationsMap : a.id \notin {l.id : l \in loaded}}
                               \cup loaded
                IN  /\ initialized' = TRUE
                    /\ applicationsMap' = map
                    /\ procs' = [procs EXCEPT ![p] = Idle]
                    /\ Answer(procs[p].op, procs[p].id, map)

\* initialize() of a GET: the saveToFile of the ENOENT branch has settled
GetInitSaved ==
    \E p \in Procs, ok \in BOOLEAN :
        /\ procs[p].pc = "getInitSaving"
        /\ FileUnchanged
        /\ UNCHANGED <<created, consoleLog>>
        /\ UNCHANGED <<applicationsMap, generated, issued>>
        /\ procs' = [procs EXCEPT ![p] = Idle]
        /\ IF ok
           THEN /\ \E f \in Written(p, procs[p].data) : file' = f
                /\ initialized' = TRUE
                /\ Answer(procs[p].op, procs[p].id, applicationsMap)
           ELSE /\ req' = [NoReq EXCEPT !.kind = "fileget", !.op = procs[p].op,
                                        !.id = procs[p].id]
                /\ resp' = Reply(500, IF procs[p].op = "list"
                                      THEN "Failed to fetch applications"
                                      ELSE "Failed to fetch application", "EACCES")
                /\ UNCHANGED <<initialized, file>>

\* The server process starts again on the same directory
Restart ==
    /\ \A p \in Procs : procs[p].pc = "idle"
    /\ initialized
    /\ applicationsMap' = {}
    /\ initialized' = FALSE
    /\ FileUnchanged
    /\ UNCHANGED <<created, consoleLog>>
    /\ UNCHANGED <<req, resp, file, procs, generated, issued>>

(***************************************************************************)
(* Client codec (encryptUtils): text is a sequence of code points, a       *)
(* buffer a sequence of bytes                                              *)
(***************************************************************************)
RECURSIVE Flatten(_)
\* the concatenation of the parts, by halves
Flatten(parts) ==
    IF Len(parts) = 0 THEN <<>>
    ELSE IF Len(parts) = 1 THEN parts[1]
    ELSE LET h == Len(parts) \div 2
         IN  Flatten(SubSeq(parts, 1, h)) \o Flatten(SubSeq(parts, h + 1, Len(parts)))

RECURSIVE Join(_)
\* Array.join(",")
Join(parts) ==
    IF parts = <<>> THEN <<>>
    ELSE IF Len(parts) = 1 THEN parts[1]
    ELSE parts[1] \o <<44>> \o Join(Tail(parts))

\* JavaScript values a data object is made of
JsString(s) == [t |-> "string", s |-> s, n |-> 0, items |-> <<>>]
JsNumber(n) == [t |-> "number", s |-> <<>>, n |-> n, items |-> <<>>]
JsArray(items) == [t |-> "array", s |-> <<>>, n |-> 0, items |-> items]
JsObject(members) == [t |-> "object", s |-> <<>>, n |-> 0, items |-> members]
JsUndefined == [t |-> "undefined", s |-> <<>>, n |-> 0, items |-> <<>>]
Member(key, value) == [key |-> key, value |-> value]

HexDigit(d) == IF d < 10 THEN 48 + d ELSE 87 + d
HexValue(c) ==
    IF c \in 48..57 THEN c - 48
    ELSE IF c \in 97..102 THEN c - 87
    ELSE IF c \in 65..70 THEN c - 55
    ELSE -1

\* JSON.stringify of one character of a string
QuoteChar(c) ==
    CASE c = 34 -> <<92, 34>>
      [] c = 92 -> <<92, 92>>
      [] c = 8  -> <<92, 98>>
      [] c = 9  -> <<92, 116>>
      [] c = 10 -> <<92, 110>>
      [] c = 12 -> <<92, 102>>
      [] c = 13 -> <<92, 114>>
      [] c < 32 /\ c \notin {8, 9, 10, 12, 13} ->
             <<92, 117, 48, 48, HexDigit(c \div 16), HexDigit(c % 16)>>
      [] OTHER -> <<c>>

Quote(s) == <<34>> \o Flatten([i \in 1..Len(s) |-> QuoteChar(s[i])]) \o <<34>>

RECURSIVE Digits(_)
Digits(n) == IF n < 10 THEN <<48 + n>> ELSE Digits(n \div 10) \o <<48 + (n % 10)>>

RECURSIVE JSON_stringify(_)
\* JSON.stringify(data)
JSON_stringify(v) ==
    CASE v.t = "string" -> Quote(v.s)
      [] v.t = "number" -> Digits(v.n)
      [] v.t = "array" ->
             <<91>> \o Join([i \in 1..Len(v.items) |-> JSON_stringify(v.items[i])]) \o <<93>>
      [] v.t = "object" ->
             <<123>> \o Join([i \in 1..Len(v.items) |->
                                Quote(v.items[i].key) \o <<58>>
                                    \o JSON_stringify(v.items[i].value)]) \o <<125>>

SyntaxError == [ok |-> FALSE, value |-> JsUndefined, next |-> 0]
Parsed(value, next) == [ok |-> TRUE, value |-> value, next |-> next]

RECURSIVE SkipWs(_, _)
SkipWs(text, i) ==
    IF i <= Len(text) /\ text[i] \in {32, 9, 10, 13} THEN SkipWs(text, i + 1) ELSE i

RECURSIVE StringBody(_, _, _)
\* the characters of a JSON string after its opening quote
StringBody(text, i, acc) ==
    IF i > Len(text) THEN SyntaxError
    ELSE IF text[i] = 34 THEN Parsed(acc, i + 1)
    ELSE IF text[i] < 32 THEN SyntaxError
    ELSE IF text[i] # 92 THEN StringBody(text, i + 1, Append(acc, text[i]))
    ELSE IF i + 1 > Len(text) THEN SyntaxError
    ELSE LET e == text[i + 1]
         IN  CASE e = 34  -> StringBody(text, i + 2, Append(acc, 34))
               [] e = 92  -> StringBody(text, i + 2, Append(acc, 92))
               [] e = 47  -> StringBody(text, i + 2, Append(acc, 47))
               [] e = 98  -> StringBody(text, i + 2, Append(acc, 8))
               [] e = 102 -> StringBody(text, i + 2, Append(acc, 12))
               [] e = 110 -> StringBody(text, i + 2, Append(acc, 10))
               [] e = 114 -> StringBody(text, i + 2, Append(acc, 13))
               [] e = 116 -> StringBody(text, i + 2, Append(acc, 9))
               [] e = 117 ->
                    IF i + 5 <= Len(text)
                           /\ \A k \in 2..5 : HexValue(text[i + k]) >= 0
                    THEN StringBody(text, i + 6,
                             Append(acc, HexValue(text[i + 2]) * 4096
                                           + HexValue(text[i + 3]) * 256
                                           + HexValue(text[i + 4]) * 16
                                           + HexValue(text[i + 5])))
                    ELSE SyntaxError
               [] OTHER -> SyntaxError

RECURSIVE NumberBody(_, _, _)
\* the digits of a non-negative integer
NumberBody(text, i, acc) ==
    IF i <= Len(text) /\ text[i] \in 48..57
    THEN NumberBody(text, i + 1, acc * 10 + (text[i] - 48))
    ELSE Parsed(JsNumber(acc), i)

RECURSIVE ParseValue(_, _)
RECURSIVE ParseElements(_, _, _)
RECURSIVE ParseMembers(_, _, _)

\* one JSON value of the grammar JSON_stringify writes: strings,
\* non-negative integers, arrays and objects
ParseValue(text, i0) ==
    LET i == SkipWs(text, i0)
    IN  IF i > Len(text) THEN SyntaxError
        ELSE CASE text[i] = 34 ->
                    LET r == StringBody(text, i + 1, <<>>)
                    IN  IF r.ok THEN Parsed(JsString(r.value), r.next) ELSE SyntaxError
               [] text[i] = 48 -> Parsed(JsNumber(0), i + 1)
               [] text[i] \in 49..57 -> NumberBody(text, i, 0)
               [] text[i] = 91 ->
                    LET j == SkipWs(text, i + 1)
                    IN  IF j <= Len(text) /\ text[j] = 93
                        THEN Parsed(JsArray(<<>>), j + 1)
                        ELSE ParseElements(text, j, <<>>)
               [] text[i] = 123 ->
                    LET j == SkipWs(text, i + 1)
                    IN  IF j <= Len(text) /\ text[j] = 125
                        THEN Parsed(JsObject(<<>>), j + 1)
                        ELSE ParseMembers(text, j, <<>>)
               [] OTHER -> SyntaxError

ParseElements(text, i, acc) ==
    LET r == ParseValue(text, i)
        j == SkipWs(text, r.next)
    IN  IF ~r.ok \/ j > Len(text) THEN SyntaxError
        ELSE IF text[j] = 44 THEN ParseElements(text, j + 1, Append(acc, r.value))
        ELSE IF text[j] = 93 THEN Parsed(JsArray(Append(acc, r.value)), j + 1)
        ELSE SyntaxError

ParseMembers(text, i0, acc) ==
    LET i == SkipWs(text, i0)
        k == StringBody(text, i + 1, <<>>)
        c == SkipWs(text, k.next)
        r == ParseValue(text, c + 1)
        j == SkipWs(text, r.next)
    IN  IF i > Len(text) \/ text[i] # 34 THEN SyntaxError
        ELSE IF ~k.ok \/ c > Len(text) \/ text[c] # 58 THEN SyntaxError
        ELSE IF ~r.ok \/ j > Len(text) THEN SyntaxError
        ELSE IF text[j] = 44
             THEN ParseMembers(text, j + 1, Append(acc, Member(k.value, r.value)))
        ELSE IF text[j] = 125
             THEN Parsed(JsObject(Append(acc, Member(k.value, r.value))), j + 1)
        ELSE SyntaxError

\* JSON.parse(decryptedString)
JSON_parse(text) ==
    LET r == ParseValue(text, 1)
    IN  IF r.ok /\ SkipWs(text, r.next) = Len(text) + 1
        THEN [ok |-> TRUE, value |-> r.value]
        ELSE [ok |-> FALSE, value |-> JsUndefined]

\* UTF-8 of one code point
EncodeCodePoint(c) ==
    IF c < 128 THEN <<c>>
    ELSE IF c < 2048 THEN <<192 + (c \div 64), 128 + (c % 64)>>
    ELSE IF c < 65536
         THEN <<224 + (c \div 4096), 128 + ((c \div 64) % 64), 128 + (c % 64)>>
    ELSE <<240 + (c \div 262144), 128 + ((c \div 4096) % 64),
           128 + ((c \div 64) % 64), 128 + (c % 64)>>

\* new TextEncoder().encode(string)
TextEncoder_encode(string) ==
    Flatten([i \in 1..Len(string) |-> EncodeCodePoint(string[i])])

Continuation(bytes, i) == i >= 1 /\ i <= Len(bytes) /\ bytes[i] \in 128..191

\* the code point of the well-formed sequence that starts at byte i
CodePointAt(bytes, i) ==
    LET b == bytes[i]
    IN  CASE b \in 194..223 -> (b - 192) * 64 + (bytes[i + 1] - 128)
          [] b \in 224..239 ->
                 (b - 224) * 4096 + (bytes[i + 1] - 128) * 64 + (bytes[i + 2] - 128)
          [] b \in 240..244 ->
                 (b - 240) * 262144 + (bytes[i + 1] - 128) * 4096
                     + (bytes[i + 2] - 128) * 64 + (bytes[i + 3] - 128)
          [] OTHER -> b

\* the number of bytes of the well-formed sequence that starts at byte i,
\* 0 when none does
WellFormedAt(bytes, i) ==
    IF i < 1 \/ i > Len(bytes) THEN 0
    ELSE LET b == bytes[i]
         IN  IF b < 128 THEN 1
             ELSE IF b \in 194..223 /\ Continuation(bytes, i + 1) THEN 2
             ELSE IF b \in 224..239 /\ Continuation(bytes, i + 1)
                        /\ Continuation(bytes, i + 2)
                        /\ CodePointAt(bytes, i) >= 2048
                        /\ CodePointAt(bytes, i) \notin 55296..57343
                  THEN 3
             ELSE IF b \in 240..244 /\ Continuation(bytes, i + 1)
                        /\ Continuation(bytes, i + 2) /\ Continuation(bytes, i + 3)
                        /\ CodePointAt(bytes, i) \in 65536..1114111
                  THEN 4
             ELSE 0

\* UTF-8 decoding from byte `from`: one character per well-formed sequence,
\* U+FFFD per byte that belongs to none
Utf8Decode(bytes, from) ==
    LET starts == {i \in from..Len(bytes) :
                      \A d \in 1..3 : i - d < from \/ WellFormedAt(bytes, i - d) <= d}
        rank == [i \in starts |-> Cardinality({j \in starts : j <= i})]
        at == [k \in 1..Cardinality(starts) |-> CHOOSE i \in starts : rank[i] = k]
    IN  [k \in 1..Cardinality(starts) |->
            IF WellFormedAt(bytes, at[k]) > 0 THEN CodePointAt(bytes, at[k]) ELSE 65533]

\* every byte read as one character
TextDecoder_decode_Latin1(bytes) == bytes

\* new TextDecoder().decode(buffer): UTF-8, a leading byte order mark dropped
TextDecoder_decode(bytes) ==
    IF Len(bytes) >= 3 /\ SubSeq(bytes, 1, 3) = <<239, 187, 191>>
    THEN Utf8Decode(bytes, 4)
    ELSE Utf8Decode(bytes, 1)

\* the base64 alphabet
Base64Char(v) ==
    IF v < 26 THEN 65 + v
    ELSE IF v < 52 THEN 97 + (v - 26)
    ELSE IF v < 62 THEN 48 + (v - 52)
    ELSE IF v = 62 THEN 43
    ELSE 47

Base64Value(c) ==
    IF c \in 65..90 THEN c - 65
    ELSE IF c \in 97..122 THEN c - 97 + 26
    ELSE IF c \in 48..57 THEN c - 48 + 52
    ELSE IF c = 43 THEN 62
    ELSE IF c = 47 THEN 63
    ELSE -1

\* btoa(binary): three bytes to four characters, the last group padded
btoa(b) ==
    LET n == Len(b)
        byte(i) == IF i <= n THEN b[i] ELSE 0
    IN  [j \in 1..(4 * ((n + 2) \div 3)) |->
            LET k == 3 * ((j - 1) \div 4)
                pos == (j - 1) % 4
            IN  CASE pos = 0 -> Base64Char(byte(k + 1) \div 4)
                  [] pos = 1 -> Base64Char((byte(k + 1) % 4) * 16 + (byte(k + 2) \div 16))
                  [] pos = 2 -> IF k + 2 > n THEN 61
                                ELSE Base64Char((byte(k + 2) % 16) * 4 + (byte(k + 3) \div 64))
                  [] pos = 3 -> IF k + 3 > n THEN 61 ELSE Base64Char(byte(k + 3) % 64)]

\* four sextets to three bytes, two to one and three to two at the end
DecodeSextets(v) ==
    [i \in 1..((Len(v) * 3) \div 4) |->
        LET k == 4 * ((i - 1) \div 3)
            pos == (i - 1) % 3
        IN  CASE pos = 0 -> v[k + 1] * 4 + (v[k + 2] \div 16)
              [] pos = 1 -> (v[k + 2] % 16) * 16 + (v[k + 3] \div 4)
              [] pos = 2 -> (v[k + 3] % 4) * 64 + v[k + 4]]

\* atob(base64): white space removed, padding of a whole number of groups
\* removed, then every character must be of the alphabet
atob(base64) ==
    LET s == SelectSeq(base64, LAMBDA c : c \notin {9, 10, 12, 13, 32})
        n == Len(s)
        data == IF n % 4 = 0 /\ n >= 2 /\ s[n] = 61 /\ s[n - 1] = 61
                   THEN SubSeq(s, 1, n - 2)
                ELSE IF n % 4 = 0 /\ n >= 1 /\ s[n] = 61 THEN SubSeq(s, 1, n - 1)
                ELSE s
        sextets == [i \in 1..Len(data) |-> Base64Value(data[i])]
    IN  IF Len(data) % 4 = 1 \/ \E i \in 1..Len(data) : sextets[i] < 0
        THEN [ok |-> FALSE, bytes |-> <<>>]
        ELSE [ok |-> TRUE, bytes |-> DecodeSextets(sextets)]

\* arrayBufferToBase64(buffer): each byte a character, then btoa
arrayBufferToBase64(buffer) == btoa(buffer)

\* base64ToArrayBuffer(base64): atob, then each character a byte
base64ToArrayBuffer(base64) == atob(base64)

\* ivToBase64(iv)
ivToBase64(iv) == arrayBufferToBase64(iv)

DEMO_KEY_MATERIAL ==
    <<100, 101, 109, 111, 45, 99, 111, 108, 108, 101, 103, 101, 45, 97, 112, 112,
      45, 101, 110, 99, 114, 121, 112, 116, 105, 111, 110, 45, 107, 101, 121, 45,
      51, 50, 98, 121, 116, 101, 115, 33, 33>>

\* String.padEnd(n, "0")
padEnd(s, n) == s \o [i \in 1..(IF Len(s) < n THEN n - Len(s) ELSE 0) |-> 48]

\* getDemoKey(): the raw key bytes imported
getDemoKey == TextEncoder_encode(SubSeq(padEnd(DEMO_KEY_MATERIAL, 32), 1, 32))

\* AES-GCM as an authenticated stream cipher over bytes: the key stream
\* depends on key, nonce and position, the tag on key, nonce and ciphertext
KeyStream(key, iv, i) ==
    (key[((i - 1) % Len(key)) + 1] + iv[((i - 1) % Len(iv)) + 1] + i) % 256

Tag(key, iv, ct) ==
    <<(SumSeq(ct) + SumSeq(key) + Len(ct)) % 256,
      (SumSeq(iv) + SumSeq(key) + Len(iv)) % 256>>

\* crypto.subtle.encrypt({name: 'AES-GCM', iv}, key, data)
subtle_encrypt(key, iv, data) ==
    LET ct == [i \in 1..Len(data) |-> (data[i] + KeyStream(key, iv, i)) % 256]
    IN  ct \o Tag(key, iv, ct)

\* crypto.subtle.decrypt({name: 'AES-GCM', iv}, key, data)
subtle_decrypt(key, iv, data) ==
    LET n == Len(data) - Len(Tag(key, iv, <<>>))
        ct == SubSeq(data, 1, n)
    IN  IF n < 0 \/ Len(iv) = 0 \/ SubSeq(data, n + 1, Len(data)) # Tag(key, iv, ct)
        THEN [ok |-> FALSE, bytes |-> <<>>]
        ELSE [ok |-> TRUE,
              bytes |-> [i \in 1..n |-> (ct[i] + 256 - KeyStream(key, iv, i)) % 256]]

\* encryptData(data, iv)
encryptData(data, iv) ==
    LET key == getDemoKey
        dataString == JSON_stringify(data)
        encodedData == TextEncoder_encode(dataString)
        encryptedData == subtle_encrypt(key, iv, encodedData)
    IN  arrayBufferToBase64(encryptedData)

Failed(message) == [ok |-> FALSE, value |-> JsUndefined, error |-> message]

\* decryptData(encryptedData, iv) of the codec
clientDecryptData(encryptedData, iv) ==
    LET key == getDemoKey
        encryptedBuffer == base64ToArrayBuffer(encryptedData)
        ivBuffer == base64ToArrayBuffer(iv)
        decryptedData == subtle_decrypt(key, ivBuffer.bytes, encryptedBuffer.bytes)
        decryptedString == TextDecoder_decode(decryptedData.bytes)
        parsed == JSON_parse(decryptedString)
    IN  IF ~encryptedBuffer.ok \/ ~ivBuffer.ok THEN Failed("Failed to decrypt data")
        ELSE IF ~decryptedData.ok THEN Failed("Failed to decrypt data")
        ELSE IF ~parsed.ok THEN Failed("Failed to decrypt data")
        ELSE [ok |-> TRUE, value |-> parsed.value, error |-> ""]

\* Field names and field values of the form
K_name == <<110, 97, 109, 101>>
K_gpa == <<103, 112, 97>>
K_documents == <<100, 111, 99, 117, 109, 101, 110, 116, 115>>
K_size == <<115, 105, 122, 101>>

Names ==
    {<<>>, <<65, 100, 97>>, <<34>>, <<92>>, <<10>>, <<1>>, <<233>>, <<8364>>,
     <<128512>>, <<65, 34, 233, 92, 110>>}
Gpas == {<<51, 46, 57>>, <<52>>}
Sizes == {0, 7, 1024}
Documents ==
    {<<>>}
    \cup {<<JsObject(<<Member(K_name, JsString(<<97, 46, 112, 100, 102>>)),
                       Member(K_size, JsNumber(n))>>)>> : n \in Sizes}

\* applicationData as handleSubmit builds it
ApplicationData(name, gpa, documents) ==
    JsObject(<<Member(K_name, JsString(name)),
               Member(K_gpa, JsString(gpa)),
               Member(K_documents, JsArray(documents))>>)

DataObjects ==
    {ApplicationData(name, gpa, documents) :
        name \in Names, gpa \in Gpas, documents \in Documents}

\* 12-byte values of generateIV()
Nonces ==
    {<<0, 0, 0, 0, 0, 0, 0, 0, 0, 0, 0, 0>>,
     <<255, 255, 255, 255, 255, 255, 255, 255, 255, 255, 255, 255>>,
     <<251, 239, 190, 1, 35, 69, 103, 137, 171, 205, 239, 62>>}

NoResult == [ok |-> FALSE, value |-> JsUndefined, error |-> ""]
NoCodec == [pc |-> "none", data |-> JsUndefined, iv |-> <<>>, encryptedData |-> <<>>,
            ivBase64 |-> <<>>, modified |-> "none", result |-> NoResult]

CodecUnchanged ==
    UNCHANGED <<now, rateLimitStore, admitted, isConfigured, Applications, req, resp,
                storeReads, kvCalls, cause, submitted, fileVars, handlers>>

\* handleSubmit: ivToBase64(iv) and encryptData(applicationData, iv)
Encrypt ==
    /\ codec.pc = "form"
    /\ codec' = [codec EXCEPT !.pc = "sealed",
                              !.ivBase64 = ivToBase64(codec.iv),
                              !.encryptedData = encryptData(codec.data, codec.iv)]
    /\ CodecUnchanged

\* the character with bit k inverted
FlipBit(c, k) == IF (c \div (2 ^ k)) % 2 = 1 THEN c - 2 ^ k ELSE c + 2 ^ k

\* One bit of the stored ciphertext text or of the stored nonce text
\* changes between submission and decryption
Tamper ==
    /\ codec.pc = "sealed"
    /\ \/ \E i \in 1..Len(codec.encryptedData), k \in 0..7 :
             codec' = [codec EXCEPT !.pc = "modified", !.modified = "ciphertext",
                                    !.encryptedData[i] = FlipBit(@, k)]
       \/ \E i \in 1..Len(codec.ivBase64), k \in 0..7 :
             codec' = [codec EXCEPT !.pc = "modified", !.modified = "nonce",
                                    !.ivBase64[i] = FlipBit(@, k)]
    /\ CodecUnchanged

\* decryptData(encryptedData, iv) on what the store holds
Decrypt ==
    /\ codec.pc \in {"sealed", "modified"}
    /\ codec' = [codec EXCEPT !.pc = "opened",
                              !.result = clientDecryptData(codec.encryptedData,
                                                           codec.ivBase64)]
    /\ CodecUnchanged

(***************************************************************************)
(* Public routes on the store (backend/routes/applicationRoutes.js)        *)
(***************************************************************************)
\* Bodies of PUT /api/applications/:id: JSON objects, as functions from
\* their keys.  gpa is in hundredths.
UpdateBodies ==
    {<<>>,
     [gpa |-> 350],
     [gpa |-> -100],
     [encryptedData |-> Base64Of(Corrupted), iv |-> "iv-A"],
     [name |-> "Eve", encryptedData |-> Base64Of(Corrupted), iv |-> "iv-A"]}

UpdatableFields == {"name", "email", "phone", "course", "department", "gpa"}

\* The SET list of AzureSqlService.updateApplication
updateFields(updateData) == DOMAIN updateData \cap UpdatableFields

\* A row after UPDATE Applications SET ... alone
UpdatedRow_AnyColumn(a, updateData) ==
    [c \in DOMAIN a |->
        IF c \in DOMAIN updateData \ {"id"} THEN updateData[c]
        ELSE IF c = "encrypted_data" /\ "encryptedData" \in DOMAIN updateData
             THEN BufferFromBase64(updateData.encryptedData)
             ELSE a[c]]

UpdatedRow(a, updateData) ==
    [c \in DOMAIN a |-> IF c \in updateFields(updateData) THEN updateData[c] ELSE a[c]]

\* PUT /api/applications/:id
updateApplication(id, updateData, dbOk) ==
    LET idValidation == validateApplicationId(id)
    IN  /\ req' = [NoReq EXCEPT !.kind = "update", !.id = id, !.body = updateData]
        /\ storeReads' = 0
        /\ kvCalls' = 0
        /\ cause' = <<>>
        /\ UNCHANGED <<now, rateLimitStore, admitted, isConfigured, submitted,
                       fileVars, handlers, codec>>
        /\ IF ~idValidation.isValid
           THEN /\ resp' = [Reply(400, "Invalid application ID", "")
                              EXCEPT !.errors = idValidation.errors]
                /\ UNCHANGED Applications
           ELSE IF DOMAIN updateData = {}
           THEN /\ resp' = Reply(400, "No update data provided", "")
                /\ UNCHANGED Applications
           ELSE IF ~dbOk \/ updateFields(updateData) = {}
           THEN /\ resp' = Reply(500, "Failed to update application",
                                 "Failed to update application in database")
                /\ UNCHANGED Applications
           ELSE IF id \notin StoredIds
           THEN /\ resp' = [Reply(404, "Application not found or no changes made", "")
                              EXCEPT !.applicationId = id]
                /\ UNCHANGED Applications
           ELSE /\ Applications' = {IF a.id = id THEN UpdatedRow(a, updateData) ELSE a :
                                       a \in Applications}
                /\ resp' = [Reply(200, "", "Application updated successfully")
                              EXCEPT !.applicationId = id]

UpdateApplication ==
    \E id \in RequestIds, updateData \in UpdateBodies, dbOk \in BOOLEAN :
       updateApplication(id, updateData, dbOk)

\* DELETE /api/applications/:id
DeleteApplication ==
    \E id \in RequestIds, dbOk \in BOOLEAN :
      LET idValidation == validateApplicationId(id)
      IN  /\ req' = [NoReq EXCEPT !.kind = "delete", !.id = id]
          /\ storeReads' = 0
          /\ kvCalls' = 0
          /\ cause' = <<>>
          /\ UNCHANGED <<now, rateLimitStore, admitted, isConfigured, submitted,
                         fileVars, handlers, codec>>
          /\ IF ~idValidation.isValid
             THEN /\ resp' = [Reply(400, "Invalid application ID", "")
                                EXCEPT !.errors = idValidation.errors]
                  /\ UNCHANGED Applications
             ELSE IF ~dbOk
             THEN /\ resp' = Reply(500, "Failed to delete application",
                                   "Failed to delete application from database")
                  /\ UNCHANGED Applications
             ELSE IF id \notin StoredIds
             THEN /\ resp' = [Reply(404, "Application not found", "")
                                EXCEPT !.applicationId = id]
                  /\ UNCHANGED Applications
             ELSE /\ Applications' = {a \in Applications : a.id # id}
                  /\ resp' = [Reply(200, "", "Application deleted successfully")
                                EXCEPT !.applicationId = id]

\* GET /api/applications: the route calls the controller with no middleware
\* before it, whatever the request carries.
ListApplications ==
    \E cred \in BatchCredentials, dbOk \in BOOLEAN, applications \in getAllApplications :
       /\ req' = [NoReq EXCEPT !.kind = "public", !.op = "list",
                               !.header = cred[1], !.query = cred[2]]
       /\ storeReads' = 1
       /\ kvCalls' = 0
       /\ cause' = <<>>
       /\ UNCHANGED <<now, rateLimitStore, admitted, isConfigured, Applications,
                      submitted, fileVars, handlers, codec>>
       /\ IF ~dbOk
          THEN resp' = Reply(500, "Failed to fetch applications",
                             "Failed to retrieve applications from database")
          ELSE resp' = [Reply(200, "", "")
                          EXCEPT !.applications =
                                     [i \in DOMAIN applications |->
                                         baseApplication(applications[i])],
                                 !.count = Len(applications)]

(***************************************************************************)
(* Statistics (ApplicationController.getApplicationStats)                  *)
(***************************************************************************)
ONE_WEEK == 7 * 24 * 60 * 60 * 1000

\* app.department || 'Unknown'
dept(app) == IF app.department = "" THEN "Unknown" ELSE app.department

\* The arm of the if / else-if chain a gpa takes
gpaBucket_Above(gpa) ==
    IF gpa > 350 THEN "high" ELSE IF gpa > 300 THEN "medium" ELSE "low"

gpaBucket(gpa) ==
    IF gpa >= 350 THEN "high" ELSE IF gpa >= 300 THEN "medium" ELSE "low"

RECURSIVE totalGpaOf(_)
\* totalGpa after the forEach, in hundredths
totalGpaOf(applications) ==
    IF applications = <<>> THEN 0
    ELSE applications[1].gpa + totalGpaOf(Tail(applications))

\* (totalGpa / applications.length).toFixed(2), in hundredths
toFixed2(totalGpa, length) == (2 * totalGpa + length) \div (2 * length)

\* The stats object after the forEach over the rows, at Date.now() = time
statisticsOf(applications, time) ==
    LET rows == {applications[i] : i \in DOMAIN applications}
        oneWeekAgo == time - ONE_WEEK
        inBucket(b) == Cardinality({i \in DOMAIN applications :
                                       gpaBucket(applications[i].gpa) = b})
    IN  [totalApplications |-> Len(applications),
         departments |-> [d \in {dept(app) : app \in rows} |->
                            Cardinality({i \in DOMAIN applications :
                                            dept(applications[i]) = d})],
         gpaDistribution |-> [high |-> inBucket("high"),
                              medium |-> inBucket("medium"),
                              low |-> inBucket("low")],
         averageGpa |-> IF Len(applications) > 0
                        THEN toFixed2(totalGpaOf(applications), Len(applications))
                        ELSE 0,
         recentApplications |-> Cardinality({i \in DOMAIN applications :
                                    applications[i].created_at > oneWeekAgo})]

\* GET /api/applications/stats
getApplicationStats ==
    \E dbOk \in BOOLEAN, applications \in getAllApplications :
       /\ req' = [NoReq EXCEPT !.kind = "public", !.op = "stats", !.time = now]
       /\ storeReads' = 1
       /\ kvCalls' = 0
       /\ cause' = <<>>
       /\ UNCHANGED <<now, rateLimitStore, admitted, isConfigured, Applications,
                      submitted, fileVars, handlers, codec>>
       /\ IF ~dbOk
          THEN resp' = Reply(500, "Failed to generate statistics",
                             "Failed to retrieve applications from database")
          ELSE resp' = [Reply(200, "", "")
                          EXCEPT !.statistics = statisticsOf(applications, now)]

\* Bodies with the departments and grades a producer may choose
StatsBodies ==
    {[Body(Base64Of(Corrupted), "iv-B", "Ada", gpa) EXCEPT !.department = department] :
        gpa \in {"3.5", "3.0", "2.9", ""}, department \in {"", "CS"}}

\* POST /api/applications with a body of StatsBodies
StatsSubmit ==
    /\ Cardinality(Applications) < MaxStatsApps
    /\ \E body \in StatsBodies, dbOk \in BOOLEAN, id \in UuidIds :
          submitApplication(body, dbOk, id,
                            BufferFromBase64(body.encryptedData).pt.data)

\* The clock around the recency window of a row created at 0
StatsTimes == {0, ONE_WEEK - 1, ONE_WEEK}

StatsTick ==
    /\ \E t \in StatsTimes : t > now /\ now' = t
    /\ UNCHANGED <<rateLimitStore, admitted, isConfigured, Applications, req, resp,
                   storeReads, kvCalls, cause, submitted, fileVars, handlers, codec>>

(***************************************************************************)
(* Backend path                                                            *)
(***************************************************************************)
\* The state after construction of the services, but for isConfigured and
\* the codec's inputs
Constructed ==
    /\ now = 0
    /\ rateLimitStore = [c \in Callers |-> <<>>]
    /\ admitted = [c \in Callers |-> <<>>]
    /\ Applications = {}
    /\ req = NoReq
    /\ resp = NoResp
    /\ storeReads = 0
    /\ kvCalls = 0
    /\ cause = <<>>
    /\ submitted = {}
    /\ applicationsMap = {}
    /\ initialized = FALSE
    /\ file = NoFile
    /\ procs = [p \in Procs |-> Idle]
    /\ generated = {}
    /\ issued = {}
    /\ created = {}
    /\ consoleLog = {}
    /\ handlers = [p \in Handlers |-> NoHandler]

Init == Constructed /\ isConfigured \in BOOLEAN /\ codec = NoCodec

Next ==
    \/ ClientSubmit
    \/ DirectSubmit
    \/ AdminDecrypt
    \/ AdminList
    \/ AdminAnalytics
    \/ AdminExport
    \/ AdminHealth

Spec == Init /\ [][Next]_vars

\* The backend path with the batch route as its admin operation
NextBatch ==
    \/ ClientSubmit
    \/ DirectSubmit
    \/ AdminBatch

SpecBatch == Init /\ [][NextBatch]_vars

\* The store under its public routes
InitStore == Constructed /\ isConfigured = FALSE /\ codec = NoCodec

NextStore ==
    \/ GpaSubmit
    \/ UpdateApplication
    \/ DeleteApplication
    \/ ListApplications

SpecStore == InitStore /\ [][NextStore]_vars

\* (Authorization header, token query parameter) with both places filled:
\* no header, a Bearer header with the valid, a wrong or an empty token, and
\* a header of another scheme, each with no, the valid or a wrong query token
AuthHeaders ==
    {NoHeader, [scheme |-> "Basic", cred |-> ValidToken]}
    \cup {[scheme |-> "Bearer", cred |-> cred] : cred \in {ValidToken, WrongToken, ""}}

AuthCredentials == {<<h, q>> : h \in AuthHeaders, q \in {"", ValidToken, WrongToken}}

\* GET /api/admin/export with the credential in either place
AuthRequest == AdminExportBy(Callers, AuthCredentials, MaxBackendRequests)

\* The admin router under requests that fill the header, the query or both
NextAuth ==
    \/ NameSubmit
    \/ AuthRequest

SpecAuth == InitStore /\ [][NextAuth]_vars

\* The store under submissions and the clock, with its statistics route
NextStats ==
    \/ StatsSubmit
    \/ StatsTick
    \/ getApplicationStats

SpecStats == InitStore /\ [][NextStats]_vars

\* The store under submit, update and delete, with the export of the admin
\* router
NextExport ==
    \/ NameSubmit
    \/ UpdateApplication
    \/ DeleteApplication
    \/ AdminExport

SpecExport == InitStore /\ [][NextExport]_vars


(***************************************************************************)
(* The gate alone, under the process clock                                 *)
(***************************************************************************)
\* Instants at which requests arrive: the start of a window, its last
\* millisecond, and the first millisecond after it.
Times == {0, 59999, 60000}

Tick ==
    /\ \E t \in Times : t > now /\ now' = t
    /\ UNCHANGED <<rateLimitStore, admitted, isConfigured, Applications, req, resp,
                   storeReads, kvCalls, cause, submitted, fileVars, handlers, codec>>

GateRequest == AdminExportBy(Callers, Credentials, MaxGateRequests)

InitGate == Constructed /\ isConfigured = FALSE /\ codec = NoCodec

NextGate == Tick \/ GateRequest

SpecGate == InitGate /\ [][NextGate]_vars

\* Bodies of a listing: one the key service opens, one it opens to a text
\* that is no JSON, one it cannot open, and the body of the client form
ListingBodies ==
    {Body(Base64Of(Sealed(VaultKey, "iv-A", JsonText(AdaData))), "iv-A", "Ada", "3.9"),
     Body(Base64Of(Sealed(VaultKey, "iv-B", NotJson)), "iv-B", "Ada", "4.0"),
     Body(Base64Of(Corrupted), "iv-A", "", ""),
     ClientBody(AdaData, "iv-B")}

\* POST /api/applications with a body of ListingBodies
ListingSubmit ==
    /\ Cardinality(Applications) < MaxListApps
    /\ \E body \in ListingBodies, dbOk \in BOOLEAN, id \in UuidIds :
          submitApplication(body, dbOk, id,
                            BufferFromBase64(body.encryptedData).pt.data)

\* The store under submissions, with the list-with-decryption route
NextListing ==
    \/ ListingSubmit
    \/ AdminList

SpecListing == Init /\ [][NextListing]_vars

\* The admin router with handlers in flight, under the clock
NextConc == Tick \/ ExportEnter \/ ExportFinish

SpecConc == InitGate /\ [][NextConc]_vars

(***************************************************************************)
(* The file-backed store under concurrent requests                         *)
(***************************************************************************)
InitFile == Constructed /\ isConfigured = FALSE /\ codec = NoCodec

NextFile ==
    \/ ClientPost
    \/ DirectPost
    \/ Loaded
    \/ InitSaved
    \/ Saved
    \/ GetAll
    \/ GetOne
    \/ GetLoaded
    \/ GetInitSaved
    \/ Restart

SpecFile == InitFile /\ [][NextFile]_vars

(***************************************************************************)
(* The file-backed store under the clock, started on a directory that may  *)
(* hold the applications.json of an earlier run                            *)
(***************************************************************************)
\* The record an earlier run of the server wrote
PriorRecords ==
    {[id |-> 101, encryptedData |-> Base64Of(Corrupted), iv |-> "iv-B",
      submittedAt |-> -1]}

InitList ==
    /\ now = 0
    /\ rateLimitStore = [c \in Callers |-> <<>>]
    /\ admitted = [c \in Callers |-> <<>>]
    /\ Applications = {}
    /\ req = NoReq
    /\ resp = NoResp
    /\ storeReads = 0
    /\ kvCalls = 0
    /\ cause = <<>>
    /\ submitted = {}
    /\ applicationsMap = {}
    /\ initialized = FALSE
    /\ procs = [p \in Procs |-> Idle]
    /\ generated = {}
    /\ issued = {}
    /\ created = {}
    /\ consoleLog = {}
    /\ handlers = [p \in Handlers |-> NoHandler]
    /\ isConfigured = FALSE
    /\ codec = NoCodec
    /\ file \in {NoFile} \cup {[exists |-> TRUE, intact |-> TRUE, records |-> r] :
                                  r \in SUBSET PriorRecords}

\* One accepted POST /api/applications
ListPost ==
    \E p \in Procs :
        /\ UNCHANGED generated
        /\ Post(p, [encryptedData |-> Base64Of(Corrupted), iv |-> "iv-A"])

NextList ==
    \/ Tick
    \/ ListPost
    \/ Loaded
    \/ InitSaved
    \/ Saved
    \/ GetAll
    \/ GetLoaded
    \/ GetInitSaved

SpecList == InitList /\ [][NextList]_vars

(***************************************************************************)
(* The codec on its own: every data object under every nonce               *)
(***************************************************************************)
InitCodec ==
    /\ Constructed
    /\ isConfigured = FALSE
    /\ codec \in {[NoCodec EXCEPT !.pc = "form", !.data = m, !.iv = iv] :
                     m \in DataObjects, iv \in Nonces}

NextCodec == Encrypt \/ Decrypt

SpecCodec == InitCodec /\ [][NextCodec]_vars

(***************************************************************************)
(* The codec with a store that changes one bit of what it holds            *)
(***************************************************************************)
\* data objects whose sealed bytes end a base64 group after one, two and
\* three bytes
ShortObjects == {ApplicationData(name, <<52>>, <<>>) : name \in {<<>>, <<65>>, <<65, 100>>}}

InitTamper ==
    /\ Constructed
    /\ isConfigured = FALSE
    /\ codec \in {[NoCodec EXCEPT !.pc = "form", !.data = m, !.iv = iv] :
                     m \in ShortObjects, iv \in Nonces}

NextTamper == Encrypt \/ Tamper \/ Decrypt

SpecTamper == InitTamper /\ [][NextTamper]_vars


(***************************************************************************)
(* Properties                                                              *)
(***************************************************************************)
\* The tokens a request carries: its bearer token and its query token.
Carried(r) ==
    {IF r.header.scheme = "Bearer" THEN r.header.cred ELSE "", r.query} \ {""}

\* The response carries nothing an admin operation produces.
NoOperationOutput ==
    /\ resp.application = NoView
    /\ resp.data = <<>> /\ resp.errors = <<>>
    /\ resp.applications = <<>> /\ resp.csv = <<>>
    /\ resp.analytics = NoResp.analytics /\ resp.health = NoResp.health

PriorAdmitted ==
    LET h == admitted[req.caller]
    IN  IF resp.status \in {401, 403, 429} THEN h ELSE SubSeq(h, 1, Len(h) - 1)

InWindow == Cardinality({i \in DOMAIN PriorAdmitted : req.time - PriorAdmitted[i] < 60000})

\* C2: an authenticated admin request is rejected with 429 exactly when 10
\* requests of its caller were admitted less than 60 000 ms before it; so
\* the first 10 of a window pass, the 11th is rejected, and a request made
\* 60 000 ms or more after the oldest of them passes again.
C2_SlidingWindow ==
    (req.kind = "admin" /\ resp.status \notin {401, 403}) =>
        /\ resp.status = 429 <=> InWindow >= 10
        /\ (Len(PriorAdmitted) >= 10
              /\ req.time - PriorAdmitted[Len(PriorAdmitted) - 9] >= 60000)
           => resp.status # 429

C2_Witness ==
    /\ req.kind = "admin" /\ resp.status \notin {401, 403, 429}
    /\ Len(admitted[req.caller]) = 11
    /\ admitted[req.caller][1] = 0
    /\ req.time = 60000

\* The admin decrypt of req.id went through the gate and both services
\* answered.
DecryptAnswered ==
    /\ req.kind = "admin" /\ req.op = "decrypt"
    /\ Len(cause) = 1
    /\ cause[1] \notin {"db", "service", "not_configured"}

\* C3: the admin decrypt of a stored submission returns the fields its
\* producer encrypted.
C3_EndToEnd ==
    \A s \in submitted :
        (DecryptAnswered /\ req.id = s.id /\ s.data # NoData) =>
            /\ resp.status = 200
            /\ resp.application.decryptedData = s.data

BatchAnswered == req.kind = "admin" /\ req.op = "batch" /\ resp.status = 200

Failing == {i \in DOMAIN cause : cause[i] # "ok"}

\* C4: in a batch decrypt every id whose decryption fails is listed among
\* the failures with its reason and counted as failed, never as successful.
C4_FailuresReported ==
    BatchAnswered =>
        /\ resp.failed = Cardinality(Failing)
        /\ Len(resp.errors) = Cardinality(Failing)
        /\ resp.successful = Len(req.ids) - Cardinality(Failing)

\* C5: in a batch decrypt the success count plus the failure count is the
\* number of ids submitted.
C5_CountsAddUp ==
    BatchAnswered =>
        /\ resp.successful + resp.failed = Len(req.ids)
        /\ resp.total = Len(req.ids)
        /\ Len(resp.data) + Len(resp.errors) = Len(req.ids)

C5_Witness ==
    /\ BatchAnswered
    /\ Len(req.ids) = 2
    /\ \E i, j \in DOMAIN cause : cause[i] = "ok" /\ cause[j] = "notfound"

\* C6: in a batch decrypt every id whose decryption succeeds has its
\* decrypted view (id and decrypted data) in the success list, whatever
\* happens to the other ids.
C6_SuccessesReturned ==
    BatchAnswered =>
        \A i \in DOMAIN cause :
            cause[i] = "ok" =>
                \E j \in DOMAIN resp.data :
                    /\ "id" \in DOMAIN resp.data[j]
                    /\ resp.data[j].id = req.ids[i]
                    /\ "decryptedData" \in DOMAIN resp.data[j]

\* The application views a response carries.
ViewsOf(r) ==
    (IF r.application = NoView THEN {} ELSE {r.application})
        \cup {r.applications[i] : i \in DOMAIN r.applications}

TextFields == {"name", "email", "phone", "course", "department",
               "documentName", "decryptionError"}

\* C7: a response of the single decrypt or of the list-with-decryption has
\* no ciphertext or nonce field, and none of its fields holds the stored
\* ciphertext or the stored nonce of a submission.
C7_NoCiphertextInResponse ==
    (req.kind = "admin" /\ req.op \in {"decrypt", "list"}) =>
        /\ \A r \in Applications : resp.error # r.iv /\ resp.message # r.iv
        /\ \A v \in ViewsOf(resp) :
              /\ DOMAIN v \cap {"encrypted_data", "encryptedData", "iv"} = {}
              /\ \A r \in Applications :
                    /\ \A f \in DOMAIN v \cap TextFields : v[f] # r.iv
                    /\ "decryptedData" \in DOMAIN v =>
                          v.decryptedData # r.encrypted_data

C7_Witness ==
    /\ req.kind = "admin" /\ req.op = "decrypt"
    /\ resp.status = 200
    /\ resp.application.id \in StoredIds
    /\ \E r \in Applications : r.id = req.id /\ r.encrypted_data.sealed /\ r.iv \in IVs

\* C8: an unknown id is answered 404; a ciphertext that fails
\* authentication is never answered as a success, and its answer differs
\* from the answers to an unknown id, to a key-service failure and to a
\* parse error.
C8_FailureKindsDistinct ==
    (req.kind = "admin" /\ req.op = "decrypt" /\ Len(cause) = 1) =>
        /\ cause[1] = "notfound" => resp.status = 404
        /\ cause[1] = "auth" =>
              /\ resp.status \notin {200, 404}
              /\ resp # decryptApplication(req.id, "express", TRUE, FALSE).sent
              /\ resp.error # "Failed to parse decrypted application data"

\* C9: no two stored submissions carry the same nonce: every record in the
\* file-backed store holds a nonce that no other stored record holds, so a
\* nonce a caller chose and that was used before never enters the store.
C9_NonceNeverReused ==
    \A a \in applicationsMap : \A b \in applicationsMap :
        a.id # b.id => a.iv # b.iv

\* C10: round trip of the codec: for every data object m and every nonce
\* iv, decryptData(encryptData(m, iv), base64(iv)) returns a value equal to m.
C10_RoundTrip ==
    codec.pc = "opened" => codec.result.ok /\ codec.result.value = codec.data

\* a name outside ASCII with a character JSON escapes, and a document with
\* a size, came back from base64 text that needed padding
C10_Witness ==
    /\ codec.pc = "opened"
    /\ codec.result.ok
    /\ codec.result.value = codec.data
    /\ codec.data.items[1].value.s = <<65, 34, 233, 92, 110>>
    /\ Len(codec.data.items[3].value.items) = 1
    /\ codec.encryptedData[Len(codec.encryptedData)] = 61

\* C11: tamper detection: when the ciphertext or the nonce handed to
\* decryptData differs in one bit from what encryptData and ivToBase64
\* produced, decryptData fails and returns no plaintext.
C11_TamperDetected ==
    (codec.pc = "opened" /\ codec.modified # "none") => ~codec.result.ok

(***************************************************************************)
(* The store under submit, update and delete                               *)
(***************************************************************************)
\* C12: after any sequence of submit, update and delete operations every
\* stored submission has a GPA index value within [0.0, 4.0] (hundredths:
\* 0..400).
C12_GpaInRange == \A a \in Applications : a.gpa >= 0 /\ a.gpa <= 400

\* C13: GPA validation at submission: "4.0" and "0.0" (and values between)
\* are accepted, "4.1", "-0.1" and text that is no number are rejected with
\* status 400 and the error that names the GPA; a submission is never
\* rejected for its GPA when the value is within [0.0, 4.0].
GpaError == "GPA must be between 0.0 and 4.0"

C13_GpaBoundaries ==
    (req.kind = "submit" /\ req.body.gpa # "") =>
        /\ req.body.gpa \in {"0.0", "3.9", "4.0"} => GpaError \notin RangeOf(resp.errors)
        /\ req.body.gpa \in {"4.1", "-0.1", "abc"} =>
              resp.status = 400 /\ GpaError \in RangeOf(resp.errors)
        /\ (resp.status = 201 /\ resp.applicationId \in StoredIds) =>
              \A a \in Applications :
                 a.id = resp.applicationId => a.gpa >= 0 /\ a.gpa <= 400

C13_Witness ==
    /\ req.kind = "submit"
    /\ req.body.gpa = "-0.1"
    /\ resp.status = 400
    /\ resp.errors = <<GpaError>>

(***************************************************************************)
(* Listing the file-backed store                                           *)
(***************************************************************************)
ListAnswered == req.kind = "fileget" /\ req.op = "list" /\ resp.status = 200

\* C14: listing order: a list answer holds every stored submission once,
\* sorted by creation timestamp in descending order.
C14_ListSortedDescending ==
    [][(ListAnswered' /\ <<req, resp>>' # <<req, resp>>) =>
          LET listed == resp'.applications
          IN  /\ RangeOf(listed) = applicationsMap'
              /\ Len(listed) = Cardinality(applicationsMap')
              /\ \A i, j \in DOMAIN listed :
                    i < j => listed[i].submittedAt >= listed[j].submittedAt]_vars

\* Submissions created at T1 < T2 < T3 listed in the order T3, T2, T1
C14_Witness ==
    /\ ListAnswered
    /\ Len(resp.applications) = 3
    /\ resp.applications[1].submittedAt > resp.applications[2].submittedAt
    /\ resp.applications[2].submittedAt > resp.applications[3].submittedAt

(***************************************************************************)
(* Reading back what the file-backed store returned                       *)
(***************************************************************************)
GetAnswered == req.kind = "fileget" /\ req.op = "get"

\* C15: read-after-write per id: once createApplication has returned a
\* record with id X, every later getApplication(X) returns that record
\* (same id, ciphertext, nonce and timestamp).  A get answered with 500 was
\* called while the first-use initialize was creating applications.json,
\* before any create had returned, and is no later call.
C15_ReadAfterWrite ==
    (GetAnswered /\ resp.status # 500 /\ \E r \in created : r.id = req.id) =>
        resp.status = 200 /\ resp.application \in created

\* C16: durability under concurrent writers: applications.json is always the
\* complete serialization of a set of records, and it holds every record
\* createApplication has returned.
C16_DurableAndWhole ==
    /\ file.exists => file.intact
    /\ \A r \in created : r \in file.records

C18_ListAdminOnly ==
    (/\ req.kind = "public"
     /\ req.op = "list"
     /\ authenticateAdmin(req.header, req.query) # 0) => resp.applications = <<>>

(***************************************************************************)
(* GET /api/admin/export                                                   *)
(***************************************************************************)
\* The line feeds of a text that end a record: those outside double quotes
RecordEnds(text) ==
    {i \in DOMAIN text :
        /\ text[i] = "\n"
        /\ Cardinality({j \in 1..(i - 1) : text[j] = "\""}) % 2 = 0}

\* The number of records a reader of the delimited text finds
Records(text) ==
    Cardinality(RecordEnds(text))
        + (IF text # <<>> /\ Len(text) \notin RecordEnds(text) THEN 1 ELSE 0)

\* C19: the export answers with data only for a valid admin credential;
\* its text is the header row followed by exactly one row per stored
\* submission, and no piece of it is the nonce of a submission.
C19_ExportRows ==
    (req.kind = "admin" /\ req.op = "export") =>
        /\ authenticateAdmin(req.header, req.query) # 0 => resp.csv = <<>>
        /\ resp.status = 200 =>
              /\ SubSeq(resp.csv, 1, Len(csvHeader)) = csvHeader
              /\ Records(resp.csv) = 1 + Cardinality(Applications)
              /\ \A r \in Applications, i \in DOMAIN resp.csv : resp.csv[i] # r.iv

(***************************************************************************)
(* The rate limit against guessing the admin token                         *)
(***************************************************************************)
\* C20: every admin request of a caller counts toward that caller's ceiling
\* whether or not its credential is valid: a request the limiter does not
\* reject is recorded under its caller, and a request of a caller with 10
\* requests recorded in the last 60 000 ms is rejected with 429, so the 11th
\* request with a wrong token is.
C20_WrongTokensCounted ==
    req.kind = "admin" =>
        /\ resp.status # 429 =>
              \E i \in DOMAIN rateLimitStore[req.caller] :
                 rateLimitStore[req.caller][i] = req.time
        /\ InWindow >= 10 => resp.status = 429

(***************************************************************************)
(* C21: no console line written while a submission is created carries the  *)
(* value of its nonce (or of its ciphertext or a key); a line may carry    *)
(* their length only.  Every logged value is a string, the ciphertexts of  *)
(* the model are buffers, and the file-backed server holds no key, so the  *)
(* nonce is the value a line can carry.                                    *)
(***************************************************************************)
C21_NoSecretLogged ==
    \A line \in consoleLog :
        /\ line.arg \notin {a.iv : a \in created}
        /\ \A p \in Procs : procs[p].pc # "idle" => line.arg # procs[p].insertApp.iv

(***************************************************************************)
(* C22: the statistics are deterministic and free of side effects: a run   *)
(* leaves the store as it was, and two runs over the same submissions      *)
(* return the same statistics.                                             *)
(***************************************************************************)
StatsAnswered == req.kind = "public" /\ req.op = "stats" /\ resp.status = 200

C22_StatsDeterministic ==
    [][(StatsAnswered /\ StatsAnswered' /\ now' = now)
          => /\ Applications' = Applications
             /\ resp'.statistics = resp.statistics]_vars

(***************************************************************************)
(* C23: over N submissions the statistics report totalApplications = N,    *)
(* department counts that sum to N, and GPA buckets that partition the     *)
(* submissions: high holds those with GPA >= 3.5, medium those with        *)
(* 3.0 <= GPA < 3.5, low those with GPA < 3.0.                             *)
(***************************************************************************)
RECURSIVE SumOver(_, _)
SumOver(f, S) ==
    IF S = {} THEN 0
    ELSE LET x == CHOOSE x \in S : TRUE IN f[x] + SumOver(f, S \ {x})

HeaderToken == IF req.header.scheme = "Bearer" THEN req.header.cred ELSE ""

C24_EitherPlace ==
    req.kind = "admin" =>
        /\ (HeaderToken = ValidToken \/ req.query = ValidToken)
               => resp.status \notin {401, 403}
        /\ resp.status = 401 => (HeaderToken = "" /\ req.query = "")

(***************************************************************************)
(* C25: after every adminRateLimit check of a caller, admitted or          *)
(* rejected, the list stored for that caller holds no timestamp that is    *)
(* 60 000 ms or more older than the time of the check.                     *)
(***************************************************************************)
C25_PrunedAfterCheck ==
    (req.kind = "admin" /\ resp.status \notin {401, 403}) =>
        \A i \in DOMAIN rateLimitStore[req.caller] :
            req.time - rateLimitStore[req.caller][i] < WINDOW_MS

\* A check that dropped the timestamps of a window that has passed
C25_Witness ==
    /\ req.kind = "admin" /\ resp.status \notin {401, 403, 429}
    /\ req.time = WINDOW_MS
    /\ Len(rateLimitStore[req.caller]) < Len(admitted[req.caller])

\* A rejected check, later than the requests it counted
C25_Rejected ==
    /\ req.kind = "admin" /\ resp.status = 429
    /\ req.time > 0
    /\ Len(rateLimitStore[req.caller]) = MAX_REQUESTS

(***************************************************************************)
(* C26: the rate-limit state is updated atomically under concurrent        *)
(* requests of one caller: whatever the interleaving of the admitted       *)
(* requests in flight, every one of them has its timestamp in the stored   *)
(* window (no lost increment), so no more than 10 requests of a caller are *)
(* admitted inside one 60-second window.                                   *)
(***************************************************************************)
\* The admitted timestamps of c that the last check of c kept
KeptOf(c) ==
    LET h == admitted[c]
    IN  IF h = <<>> THEN <<>>
        ELSE SelectSeq(h, LAMBDA time : h[Len(h)] - time < WINDOW_MS)

C26_NoLostIncrement ==
    \A c \in Callers :
        /\ rateLimitStore[c] = KeptOf(c)
        /\ \A p \in Handlers :
              (handlers[p].pc = "awaiting" /\ handlers[p].caller = c)
                 => \E i \in DOMAIN admitted[c] : admitted[c][i] = handlers[p].time
        /\ \A i \in DOMAIN admitted[c] :
              i + MAX_REQUESTS \in DOMAIN admitted[c]
                 => admitted[c][i + MAX_REQUESTS] - admitted[c][i] >= WINDOW_MS

\* Two requests of one caller in flight at once, both counted, with the
\* window full
C26_Witness ==
    /\ \A p \in Handlers : handlers[p].pc = "awaiting"
    /\ \E c \in Callers :
          /\ \A p \in Handlers : handlers[p].caller = c
          /\ Len(rateLimitStore[c]) = MAX_REQUESTS

(***************************************************************************)
(* C27: submissions with equal creation timestamps are listed in an order  *)
(* determined by their ids, whatever the order they were inserted in: in a *)
(* list answer, of two records with the same timestamp the one with the    *)
(* smaller id comes first.                                                 *)
(***************************************************************************)
C27_TiesById ==
    ListAnswered =>
        \A i, j \in DOMAIN resp.applications :
            (i < j /\ resp.applications[i].submittedAt = resp.applications[j].submittedAt)
               => resp.applications[i].id < resp.applications[j].id

\* The same with the greater id first
C27_TiesByIdDescending ==
    ListAnswered =>
        \A i, j \in DOMAIN resp.applications :
            (i < j /\ resp.applications[i].submittedAt = resp.applications[j].submittedAt)
               => resp.applications[i].id > resp.applications[j].id

(***************************************************************************)
(* C28: a rejected (429) admin request records no timestamp: the list of a *)
(* caller never holds more than 10 timestamps, a caller that was limited   *)
(* is admitted again once 60 000 ms have passed since the oldest request   *)
(* of its list, however many requests were rejected in between, and the    *)
(* requests of a caller leave the lists of the other callers as they were. *)
(***************************************************************************)
C28_RejectionsNotRecorded ==
    [][now' = now =>
          LET c == req'.caller
          IN  /\ resp'.status = 429 => rateLimitStore' = rateLimitStore
              /\ \A d \in Callers \ {c} : rateLimitStore'[d] = rateLimitStore[d]
              /\ Len(rateLimitStore'[c]) <= MAX_REQUESTS
              /\ (/\ resp'.status \notin {401, 403}
                  /\ \/ Len(rateLimitStore[c]) < MAX_REQUESTS
                     \/ now - rateLimitStore[c][1] >= WINDOW_MS)
                 => resp'.status # 429]_vars

\* A caller whose window was full, admitted again when the window has passed
C28_Witness ==
    /\ req.kind = "admin" /\ resp.status \notin {401, 403, 429}
    /\ req.time = WINDOW_MS
    /\ rateLimitStore[req.caller] = <<WINDOW_MS>>
    /\ Len(admitted[req.caller]) = MAX_REQUESTS + 1

(***************************************************************************)
(* C29: in the admin list-with-decryption a decryption or parse failure of *)
(* one submission never fails the listing: the answer is 200 with one      *)
(* entry per stored submission and count their number, an entry whose      *)
(* decryption failed carries decryptionError and no decryptedData, and     *)
(* every other entry with encrypted data carries its decryptedData.        *)
(***************************************************************************)
\* The key service opens the row to a JSON text
Decryptable(r) ==
    /\ isConfigured
    /\ r.encrypted_data.sealed /\ r.encrypted_data.key = VaultKey
    /\ r.encrypted_data.pt.json

C29_ListingSurvives ==
    (req.kind = "admin" /\ req.op = "list" /\ resp.status \notin {401, 403, 429}) =>
        /\ resp.status \in {200, 500}
        /\ resp.status = 500 =>
              resp.message = "Failed to retrieve applications from database"
        /\ resp.status = 200 =>
              /\ resp.count = Cardinality(Applications)
              /\ Len(resp.applications) = resp.count
              /\ \A r \in Applications :
                    \E i \in DOMAIN resp.applications :
                       LET e == resp.applications[i]
                       IN  /\ e.id = r.id
                           /\ e.hasEncryptedData
                           /\ ~Decryptable(r) => "decryptionError" \in DOMAIN e
                           /\ "decryptionError" \in DOMAIN e
                                 => "decryptedData" \notin DOMAIN e
                           /\ "decryptionError" \notin DOMAIN e
                                 => /\ "decryptedData" \in DOMAIN e
                                    /\ e.decryptedData = r.encrypted_data.pt.data

\* A listing of two submissions, one opened and one that failed
C29_Witness ==
    /\ req.kind = "admin" /\ req.op = "list" /\ resp.status = 200
    /\ Len(resp.applications) = MaxListApps
    /\ \E i, j \in DOMAIN resp.applications :
          /\ "decryptionError" \in DOMAIN resp.applications[i]
          /\ "decryptedData" \in DOMAIN resp.applications[j]

(***************************************************************************)
(* C30: a failed create leaves the file-backed store unchanged: the        *)
(* in-memory collection holds no record whose createApplication did not    *)
(* return it, apart from the records of the creates still in flight, so no *)
(* getApplication or getAllApplications answers with such a record.        *)
(***************************************************************************)
InFlight == {procs[p].application : p \in {q \in Procs : procs[q].pc = "saving"}}

C30_FailedCreateInvisible ==
    /\ applicationsMap \subseteq created \cup InFlight
    /\ (GetAnswered /\ resp.status = 200) => resp.application \in created \cup InFlight
====
